---- MODULE Spec2Model ----
(***************************************************************************)
(* A model of the user-space TCP/IP stack: the ARP cache and the pending   *)
(* queue (src/src/arp.c), the IPv4 receive and transmit paths             *)
(* (src/src/ip.c), ICMPv4 (src/src/icmp.c), UDP (src/src/udp.c), IPv6       *)
(* (src/src/ipv6.c) and ICMPv6 (src/src/icmpv6.c).                         *)
(*                                                                         *)
(* Packets are sequences of bytes (0..255) in wire order.  A uint16_t      *)
(* field holds a native little-endian value: the code converts with       *)
(* swap16 everywhere, so the value v of a field lies in memory as the      *)
(* bytes <<v % 256, v \div 256>>.  Every C function is an operator from    *)
(* the stack's state (a record, "world") to the state it leaves; an action *)
(* runs one entry point to completion, as the single-threaded poll loop    *)
(* does.                                                                   *)
(***************************************************************************)
EXTENDS Integers, Sequences, FiniteSets, TLC

VARIABLES
    now,                \* time(NULL), in seconds
    arp_table,          \* map_t arp_table: ip -> mac
    arp_buf,            \* map_t arp_buf: ip -> saved buffer
    udp_table,          \* map_t udp_table: port -> handler
    ip_id_frag,         \* static int id of ip_out's fragmenting branch
    ip_id_plain,        \* static int id of ip_out's direct branch
    icmp_ping_requests, \* map_t icmp_ping_requests: seq -> request record
    icmp_stats,         \* icmp_ping_stats_t icmp_stats
    out,                \* frames handed to the driver by the last operation
    calls,              \* calls observed inside the last operation, in order
    op,                 \* the last operation and its arguments
    pre,                \* the stack's state when the last operation began
    requested,          \* history: ip -> the buffer of the arp_out call that sent
                        \* the outstanding ARP request for ip (no ARP packet from
                        \* ip has been received since); the stack never reads it
    udp_last,           \* history: port -> the last of udp_open (its handler)
                        \* and udp_close ("closed") called for the port
    txbuf,              \* buf_t txbuf, the shared transmit buffer: its bytes from
                        \* the data pointer on
    arp_last,           \* history: ip -> sender_mac of the most recent well-formed
                        \* ARP packet received from ip
    net_if_mac,         \* uint8_t net_if_mac[6]: the interface MAC of this build
    net_if_ipv6,        \* uint8_t net_if_ipv6[16]
    icmp_ping_id,       \* static uint16_t icmp_ping_id
    ping_app,           \* the ping application: ping_sent_count, last_ping_time
                        \* and the position of main (pc)
    ping_hist,          \* history of the ping application: the times of its
                        \* icmp_ping_request calls, and whether the loop has
                        \* run since the clock last advanced
    ftp_sessions,       \* static ftp_session_t ftp_sessions[FTP_MAX_SESSIONS]
    next_data_port,     \* static uint16_t next_data_port
    tcp_table           \* the ports the TCP layer listens on: port -> handler

vars == <<now, arp_table, arp_buf, udp_table, ip_id_frag, ip_id_plain,
          icmp_ping_requests, icmp_stats, out, calls, op, pre, requested, udp_last,
          txbuf, arp_last, net_if_mac, net_if_ipv6, icmp_ping_id, ping_app, ping_hist,
          ftp_sessions, next_data_port, tcp_table>>

----------------------------------------------------------------------------
(* Bounds of the model *)

\* time runs from 0 to MaxTime
MaxTime == 3
\* ip_out's id counters are explored up to MaxId datagrams
MaxId == 2
\* payloads handed to ip_out span up to MaxFrags full fragments
MaxFrags == 2

----------------------------------------------------------------------------
(* Program constants *)

NET_MAC_LEN == 6
NET_IP_LEN == 4
NET_PROTOCOL_ARP == 2054
NET_PROTOCOL_IP == 2048
NET_PROTOCOL_ICMP == 1
NET_PROTOCOL_UDP == 17
NET_PROTOCOL_TCP == 6
ARP_HW_ETHER == 1
ARP_REQUEST == 1
ARP_REPLY == 2
ARP_PKT_LEN == 28
IP_VERSION_4 == 4
IP_HDR_LEN_PER_BYTE == 4
IP_HDR_LEN == 20
IP_MORE_FRAGMENT == 8192
IP_MTU == 1500
IP_TTL == 64
ICMP_HDR_LEN == 8
ICMP_TYPE_ECHO_REQUEST == 8
ICMP_TYPE_ECHO_REPLY == 0
ICMP_TYPE_UNREACH == 3
ICMP_CODE_PROTOCOL_UNREACH == 2
ICMP_CODE_PORT_UNREACH == 3
ICMP_PING_TIMEOUT == 5
UDP_HDR_LEN == 8

\* configuration of the interface (config.h); the timeouts are in the model's
\* time unit, ARP_MIN_INTERVAL < ARP_TIMEOUT_SEC as in the configuration
NET_IF_IP == <<192, 168, 163, 103>>
NET_IF_MAC == <<0, 17, 34, 51, 68, 85>>
\* the address net_if_ipv6 is compiled with; ipv6_init overwrites all of it
NET_IF_IPV6 == <<254, 128, 0, 0, 0, 0, 0, 0, 0, 0, 0, 0, 0, 0, 0, 1>>
ARP_TIMEOUT_SEC == 2
ARP_MIN_INTERVAL == 1

ether_broadcast_mac == <<255, 255, 255, 255, 255, 255>>

----------------------------------------------------------------------------
(* Bytes and 16-bit words *)

Byte == 0..255

\* swap16: exchange the two bytes of a 16-bit value
swap16(v) == (v % 256) * 256 + ((v \div 256) % 256)

\* the bytes of a native (little-endian) uint16_t in memory
store16(v) == <<v % 256, (v \div 256) % 256>>

\* the native uint16_t at byte offset off (0-based) of b
load16(b, off) == b[off + 1] + 256 * b[off + 2]

\* b with the bytes at offset off.. replaced by s
Patch(b, off, s) ==
    [i \in 1..Len(b) |-> IF i > off /\ i <= off + Len(s) THEN s[i - off] ELSE b[i]]

Take(b, n) == SubSeq(b, 1, n)
Drop(b, n) == SubSeq(b, n + 1, Len(b))

\* sum of the native 16-bit words number lo..hi (0-based) of b
RECURSIVE SumWords(_, _, _)
SumWords(b, lo, hi) ==
    IF lo > hi THEN 0
    ELSE IF lo = hi THEN load16(b, 2 * lo)
    ELSE LET mid == (lo + hi) \div 2
         IN  SumWords(b, lo, mid) + SumWords(b, mid + 1, hi)

\* while (sum >> 16) sum = (sum & 0xFFFF) + (sum >> 16);  (the uint32_t sum of
\* fewer than 32768 words never wraps)
RECURSIVE FoldCarry(_)
FoldCarry(sum) ==
    IF sum \div 65536 > 0 THEN FoldCarry((sum % 65536) + (sum \div 65536)) ELSE sum

\* (uint16_t)~sum
Not16(sum) == 65535 - (sum % 65536)

\* checksum16(data, n): the one's complement of the folded sum of n 16-bit
\* words; every caller passes a count of words (len / 2)
checksum16(b, n) == Not16(FoldCarry(SumWords(b, 0, n - 1)))

\* transport_checksum(protocol, buf, src_ip, dst_ip): the checksum over the
\* pseudo-header src | dst | 0 | protocol | length and the segment, an odd
\* segment padded with one zero byte.  The addresses are read as NET_IP_LEN
\* bytes each, whatever the caller's pointer points into
transport_checksum(protocol, b, src_ip, dst_ip) ==
    LET pseudo == Take(src_ip, NET_IP_LEN) \o Take(dst_ip, NET_IP_LEN) \o <<0, protocol>>
                  \o <<(Len(b) \div 256) % 256, Len(b) % 256>>
        all == pseudo \o b \o (IF Len(b) % 2 = 1 THEN <<0>> ELSE <<>>)
    IN  checksum16(all, Len(all) \div 2)

----------------------------------------------------------------------------
(* The expiring map (map_t) *)

NoEntries == [k \in {} |-> 0]

\* map_init(map, key_len, value_len, max_len, timeout, ...)
map_init(timeout) == [timeout |-> timeout, entries |-> NoEntries]

\* an entry is live while its age does not exceed the timeout (0: never expires)
map_live(map, t, k) ==
    /\ k \in DOMAIN map.entries
    /\ (map.timeout = 0 \/ map.entries[k].ts + map.timeout >= t)

\* map_get: the value, read without refreshing the timestamp
map_get(map, t, k) == map.entries[k].value

\* map_set: insert or overwrite, stamped with the current time
map_set(map, t, k, v) ==
    [map EXCEPT !.entries =
        [x \in (DOMAIN map.entries) \cup {k} |->
            IF x = k THEN [value |-> v, ts |-> t] ELSE map.entries[x]]]

\* map_delete: remove if present
map_delete(map, k) ==
    [map EXCEPT !.entries = [x \in (DOMAIN map.entries) \ {k} |-> map.entries[x]]]

\* map_size: the number of live entries
map_size(map, t) == Cardinality({k \in DOMAIN map.entries : map_live(map, t, k)})

----------------------------------------------------------------------------
(* The stack's state as one value *)

World ==
    [net_if_ip |-> NET_IF_IP, net_if_mac |-> net_if_mac,
     net_if_ipv6 |-> net_if_ipv6, now |-> now,
     icmp_ping_id |-> icmp_ping_id, ping_app |-> ping_app, ping_hist |-> ping_hist,
     arp_table |-> arp_table, arp_buf |-> arp_buf, udp_table |-> udp_table,
     ip_id_frag |-> ip_id_frag, ip_id_plain |-> ip_id_plain,
     icmp_ping_requests |-> icmp_ping_requests, icmp_stats |-> icmp_stats,
     ftp_sessions |-> ftp_sessions, next_data_port |-> next_data_port,
     tcp_table |-> tcp_table,
     out |-> <<>>, calls |-> <<>>, requested |-> requested, txbuf |-> txbuf]

\* a call observed inside an operation
Note(w, c) == [w EXCEPT !.calls = Append(@, c)]

----------------------------------------------------------------------------
(* Ethernet *)

\* buf_init(&txbuf, len) and the bytes the caller then writes into it
txbuf_init(w, b) == [w EXCEPT !.txbuf = b]

\* buf_add_header(buf, n) and the header the caller then writes: buf becomes
\* pkt.  A caller that was handed &txbuf pushes the header onto txbuf itself;
\* the model knows a buffer by its bytes, so it takes buf for txbuf when they
\* hold the same bytes.
buf_add_header(w, buf, pkt) == IF buf = w.txbuf THEN [w EXCEPT !.txbuf = pkt] ELSE w

\* ethernet_out(buf, mac, protocol): the frame goes to the driver
ethernet_out(w, buf, mac, protocol) ==
    LET w1 == buf_add_header(w, buf, mac \o w.net_if_mac
                                      \o <<protocol \div 256, protocol % 256>> \o buf)
    IN  [w1 EXCEPT !.out = Append(@, [dst |-> mac, src |-> w.net_if_mac,
                                      type |-> protocol, data |-> buf])]

----------------------------------------------------------------------------
(* ARP *)

\* an ARP packet for IPv4 over Ethernet, 28 bytes
arp_pkt(hw_type, pro_type, hw_len, pro_len, opcode, smac, sip, tmac, tip) ==
    store16(swap16(hw_type)) \o store16(swap16(pro_type)) \o <<hw_len, pro_len>>
    \o store16(swap16(opcode)) \o smac \o sip \o tmac \o tip

\* arp_init_pkt with the opcode and the target filled in
arp_init_pkt(w, opcode, tmac, tip) ==
    arp_pkt(ARP_HW_ETHER, NET_PROTOCOL_IP, NET_MAC_LEN, NET_IP_LEN, opcode,
            w.net_if_mac, w.net_if_ip, tmac, tip)

arp_sender_mac(b) == SubSeq(b, 9, 14)
arp_sender_ip(b) == SubSeq(b, 15, 18)
arp_target_mac(b) == SubSeq(b, 19, 24)
arp_target_ip(b) == SubSeq(b, 25, 28)
arp_opcode(b) == swap16(load16(b, 6))

arp_req(w, target_ip) ==
    LET pkt == arp_init_pkt(w, ARP_REQUEST, <<0, 0, 0, 0, 0, 0>>, target_ip)
    IN  ethernet_out(txbuf_init(w, pkt), pkt, ether_broadcast_mac, NET_PROTOCOL_ARP)

\* arp_resp sending the reply to the broadcast address
arp_resp_to_broadcast(w, target_ip, target_mac) ==
    LET pkt == arp_init_pkt(w, ARP_REPLY, target_mac, target_ip)
    IN  ethernet_out(txbuf_init(w, pkt), pkt, ether_broadcast_mac, NET_PROTOCOL_ARP)

arp_resp(w, target_ip, target_mac) ==
    LET pkt == arp_init_pkt(w, ARP_REPLY, target_mac, target_ip)
    IN  ethernet_out(txbuf_init(w, pkt), pkt, target_mac, NET_PROTOCOL_ARP)

\* the checks of arp_in before it touches any state
arp_well_formed(b) ==
    /\ Len(b) >= ARP_PKT_LEN
    /\ swap16(load16(b, 0)) = ARP_HW_ETHER
    /\ swap16(load16(b, 2)) = NET_PROTOCOL_IP
    /\ b[5] = NET_MAC_LEN
    /\ b[6] = NET_IP_LEN

\* arp_in leaving the pending entry in the queue after sending it
arp_in_keeps_pending(w, b) ==
    IF ~arp_well_formed(b) THEN w
    ELSE
      LET sip == arp_sender_ip(b)
          smac == arp_sender_mac(b)
          w1 == [w EXCEPT !.arp_table = map_set(@, w.now, sip, smac)]
      IN  IF map_live(w1.arp_buf, w1.now, sip)
          THEN ethernet_out(w1, map_get(w1.arp_buf, w1.now, sip), smac, NET_PROTOCOL_IP)
          ELSE IF arp_opcode(b) = ARP_REQUEST /\ arp_target_ip(b) = w1.net_if_ip
               THEN arp_resp(w1, sip, smac)
               ELSE w1

\* arp_in learning the sender only from packets addressed to this host
arp_in_learns_when_target(w, b) ==
    IF ~arp_well_formed(b) THEN w
    ELSE
      LET sip == arp_sender_ip(b)
          smac == arp_sender_mac(b)
          w1 == IF arp_target_ip(b) = w.net_if_ip
                THEN [w EXCEPT !.arp_table = map_set(@, w.now, sip, smac)]
                ELSE w
      IN  IF map_live(w1.arp_buf, w1.now, sip)
          THEN LET w2 == ethernet_out(w1, map_get(w1.arp_buf, w1.now, sip), smac,
                                      NET_PROTOCOL_IP)
               IN  [w2 EXCEPT !.arp_buf = map_delete(@, sip)]
          ELSE IF arp_opcode(b) = ARP_REQUEST /\ arp_target_ip(b) = w1.net_if_ip
               THEN arp_resp(w1, sip, smac)
               ELSE w1

\* arp_in checking the length of the packet and none of its fields
arp_in_checks_length_only(w, b) ==
    IF Len(b) < ARP_PKT_LEN THEN w
    ELSE
      LET sip == arp_sender_ip(b)
          smac == arp_sender_mac(b)
          w1 == [w EXCEPT !.arp_table = map_set(@, w.now, sip, smac)]
      IN  IF map_live(w1.arp_buf, w1.now, sip)
          THEN LET w2 == ethernet_out(w1, map_get(w1.arp_buf, w1.now, sip), smac,
                                      NET_PROTOCOL_IP)
               IN  [w2 EXCEPT !.arp_buf = map_delete(@, sip)]
          ELSE IF arp_opcode(b) = ARP_REQUEST /\ arp_target_ip(b) = w1.net_if_ip
               THEN arp_resp(w1, sip, smac)
               ELSE w1

arp_in(w, b) ==
    IF ~arp_well_formed(b) THEN w
    ELSE
      LET sip == arp_sender_ip(b)
          smac == arp_sender_mac(b)
          w1 == [w EXCEPT !.arp_table = map_set(@, w.now, sip, smac)]
      IN  IF map_live(w1.arp_buf, w1.now, sip)
          THEN LET w2 == ethernet_out(w1, map_get(w1.arp_buf, w1.now, sip), smac,
                                      NET_PROTOCOL_IP)
               IN  [w2 EXCEPT !.arp_buf = map_delete(@, sip)]
          ELSE IF arp_opcode(b) = ARP_REQUEST /\ arp_target_ip(b) = w1.net_if_ip
               THEN arp_resp(w1, sip, smac)
               ELSE w1

\* the branch arp_out takes: the table resolves ip, a send is pending for ip,
\* or the buffer is saved and a request sent
arp_out_branch(w, ip) ==
    IF map_live(w.arp_table, w.now, ip) THEN "send"
    ELSE IF map_live(w.arp_buf, w.now, ip) THEN "drop"
    ELSE "request"

\* arp_out without the check of the pending queue
arp_out_always_requests(w, buf, ip) ==
    LET w0 == Note(w, [fn |-> "arp_out", buf |-> buf, ip |-> ip,
                       branch |-> arp_out_branch(w, ip)])
    IN  IF map_live(w0.arp_table, w0.now, ip)
        THEN ethernet_out(w0, buf, map_get(w0.arp_table, w0.now, ip), NET_PROTOCOL_IP)
        ELSE arp_req([w0 EXCEPT !.arp_buf = map_set(@, w0.now, ip, buf)], ip)

\* arp_out taking an expired pending entry for a pending send
arp_out_ignores_expiry(w, buf, ip) ==
    LET w0 == Note(w, [fn |-> "arp_out", buf |-> buf, ip |-> ip,
                       branch |-> arp_out_branch(w, ip)])
    IN  IF map_live(w0.arp_table, w0.now, ip)
        THEN ethernet_out(w0, buf, map_get(w0.arp_table, w0.now, ip), NET_PROTOCOL_IP)
        ELSE IF ip \in DOMAIN w0.arp_buf.entries
             THEN w0
             ELSE arp_req([w0 EXCEPT !.arp_buf = map_set(@, w0.now, ip, buf)], ip)

\* arp_out writing the entry it has just read back to the table
arp_out_refreshes_entry(w, buf, ip) ==
    LET w0 == Note(w, [fn |-> "arp_out", buf |-> buf, ip |-> ip,
                       branch |-> arp_out_branch(w, ip)])
    IN  IF map_live(w0.arp_table, w0.now, ip)
        THEN ethernet_out([w0 EXCEPT !.arp_table =
                               map_set(@, w0.now, ip, map_get(w0.arp_table, w0.now, ip))],
                          buf, map_get(w0.arp_table, w0.now, ip), NET_PROTOCOL_IP)
        ELSE IF map_live(w0.arp_buf, w0.now, ip)
             THEN w0
             ELSE arp_req([w0 EXCEPT !.arp_buf = map_set(@, w0.now, ip, buf)], ip)

\* arp_out sending the request before it saves the buffer it was handed: a
\* caller's &txbuf then holds the request
arp_out_saves_after_request(w, buf, ip) ==
    LET w0 == Note(w, [fn |-> "arp_out", buf |-> buf, ip |-> ip,
                       branch |-> arp_out_branch(w, ip)])
    IN  IF map_live(w0.arp_table, w0.now, ip)
        THEN ethernet_out(w0, buf, map_get(w0.arp_table, w0.now, ip), NET_PROTOCOL_IP)
        ELSE IF map_live(w0.arp_buf, w0.now, ip)
             THEN w0
             ELSE LET w1 == arp_req(w0, ip)
                  IN  [w1 EXCEPT !.arp_buf =
                          map_set(@, w1.now, ip, IF buf = w0.txbuf THEN w1.txbuf ELSE buf)]

\* arp_out saving the buffer in the pending queue also when it has sent it
arp_out_queues_when_resolved(w, buf, ip) ==
    LET w0 == Note(w, [fn |-> "arp_out", buf |-> buf, ip |-> ip,
                       branch |-> arp_out_branch(w, ip)])
    IN  IF map_live(w0.arp_table, w0.now, ip)
        THEN [ethernet_out(w0, buf, map_get(w0.arp_table, w0.now, ip), NET_PROTOCOL_IP)
                EXCEPT !.arp_buf = map_set(@, w0.now, ip, buf)]
        ELSE IF map_live(w0.arp_buf, w0.now, ip)
             THEN w0
             ELSE arp_req([w0 EXCEPT !.arp_buf = map_set(@, w0.now, ip, buf)], ip)

arp_out(w, buf, ip) ==
    LET w0 == Note(w, [fn |-> "arp_out", buf |-> buf, ip |-> ip,
                       branch |-> arp_out_branch(w, ip)])
    IN  IF map_live(w0.arp_table, w0.now, ip)
        THEN ethernet_out(w0, buf, map_get(w0.arp_table, w0.now, ip), NET_PROTOCOL_IP)
        ELSE IF map_live(w0.arp_buf, w0.now, ip)
             THEN w0
             ELSE arp_req([w0 EXCEPT !.arp_buf = map_set(@, w0.now, ip, buf)], ip)

----------------------------------------------------------------------------
(* IPv4 transmit *)

\* the 20-byte header ip_fragment_out writes in front of buf, checksum included
\* the header with its checksum computed before the addresses are written
ip_header_checksum_before_addresses(w, buf, ip, protocol, id, offset, mf) ==
    LET flags_fragment == (IF mf # 0 THEN IP_MORE_FRAGMENT ELSE 0) + (offset % 8192)
        h0 == <<IP_VERSION_4 * 16 + 5, 0>>
              \o store16(swap16((Len(buf) + IP_HDR_LEN) % 65536))
              \o store16(swap16(id % 65536))
              \o store16(swap16(flags_fragment))
              \o <<IP_TTL, protocol % 256>> \o <<0, 0>>
        z == <<0, 0, 0, 0, 0, 0, 0, 0>>
    IN  Patch(h0 \o w.net_if_ip \o ip, 10, store16(checksum16(h0 \o z, IP_HDR_LEN \div 2)))

ip_header(w, buf, ip, protocol, id, offset, mf) ==
    LET flags_fragment == (IF mf # 0 THEN IP_MORE_FRAGMENT ELSE 0) + (offset % 8192)
        h0 == <<IP_VERSION_4 * 16 + 5, 0>>
              \o store16(swap16((Len(buf) + IP_HDR_LEN) % 65536))
              \o store16(swap16(id % 65536))
              \o store16(swap16(flags_fragment))
              \o <<IP_TTL, protocol % 256>> \o <<0, 0>>
              \o w.net_if_ip \o ip
    IN  Patch(h0, 10, store16(checksum16(h0, IP_HDR_LEN \div 2)))

ip_fragment_out(w, buf, ip, protocol, id, offset, mf) ==
    LET pkt == ip_header(w, buf, ip, protocol, id, offset, mf) \o buf
    IN  arp_out(buf_add_header(w, buf, pkt), pkt, ip)

\* the loop with MF set on a last fragment of exactly max_payload bytes
RECURSIVE ip_out_loop_mf_on_full(_, _, _, _, _, _, _)
ip_out_loop_mf_on_full(w, buf, ip, protocol, current_id, offset, remaining) ==
    IF remaining <= 0 THEN w
    ELSE
      LET max_payload == IP_MTU - IP_HDR_LEN
          frag_size == IF remaining > max_payload THEN max_payload ELSE remaining
          ip_buf == SubSeq(buf, offset + 1, offset + frag_size)
          frag_offset == (offset \div 8) % 65536
          mf == IF remaining >= max_payload THEN 1 ELSE 0
          w1 == ip_fragment_out(w, ip_buf, ip, protocol, current_id, frag_offset, mf)
      IN  ip_out_loop_mf_on_full(w1, buf, ip, protocol, current_id, offset + frag_size,
                                 remaining - frag_size)

\* the loop copying every fragment from the start of the payload
RECURSIVE ip_out_loop_copies_start(_, _, _, _, _, _, _)
ip_out_loop_copies_start(w, buf, ip, protocol, current_id, offset, remaining) ==
    IF remaining <= 0 THEN w
    ELSE
      LET max_payload == IP_MTU - IP_HDR_LEN
          frag_size == IF remaining > max_payload THEN max_payload ELSE remaining
          ip_buf == SubSeq(buf, 1, frag_size)
          frag_offset == (offset \div 8) % 65536
          mf == IF remaining > max_payload THEN 1 ELSE 0
          w1 == ip_fragment_out(w, ip_buf, ip, protocol, current_id, frag_offset, mf)
      IN  ip_out_loop_copies_start(w1, buf, ip, protocol, current_id, offset + frag_size,
                                   remaining - frag_size)

\* the while loop of ip_out's fragmenting branch
RECURSIVE ip_out_loop(_, _, _, _, _, _, _)
ip_out_loop(w, buf, ip, protocol, current_id, offset, remaining) ==
    IF remaining <= 0 THEN w
    ELSE
      LET max_payload == IP_MTU - IP_HDR_LEN
          frag_size == IF remaining > max_payload THEN max_payload ELSE remaining
          ip_buf == SubSeq(buf, offset + 1, offset + frag_size)
          frag_offset == (offset \div 8) % 65536
          mf == IF remaining > max_payload THEN 1 ELSE 0
          w1 == ip_fragment_out(w, ip_buf, ip, protocol, current_id, frag_offset, mf)
      IN  ip_out_loop(w1, buf, ip, protocol, current_id, offset + frag_size,
                      remaining - frag_size)

ip_out(w, buf, ip, protocol) ==
    LET w0 == Note(w, [fn |-> "ip_out", buf |-> buf, ip |-> ip, protocol |-> protocol])
        max_payload == IP_MTU - IP_HDR_LEN
    IN  IF Len(buf) > max_payload
        THEN LET w1 == ip_out_loop(w0, buf, ip, protocol, w0.ip_id_frag, 0, Len(buf))
             IN  [w1 EXCEPT !.ip_id_frag = @ + 1]
        ELSE LET w1 == ip_fragment_out(w0, buf, ip, protocol, w0.ip_id_plain, 0, 0)
             IN  [w1 EXCEPT !.ip_id_plain = @ + 1]

----------------------------------------------------------------------------
(* ICMPv4 *)

\* icmp_resp adding an odd trailing byte as the high byte of a native word
icmp_resp_checksum_high(tx) ==
    IF Len(tx) % 2 = 1
    THEN Not16(FoldCarry(SumWords(tx, 0, (Len(tx) \div 2) - 1) + tx[Len(tx)] * 256))
    ELSE checksum16(tx, Len(tx) \div 2)

\* the checksum icmp_resp writes: an odd trailing byte is added as the low
\* byte of a native word
icmp_resp_checksum(tx) ==
    IF Len(tx) % 2 = 1
    THEN Not16(FoldCarry(SumWords(tx, 0, (Len(tx) \div 2) - 1) + tx[Len(tx)]))
    ELSE checksum16(tx, Len(tx) \div 2)

icmp_resp(w, req, src_ip) ==
    LET tx0 == Patch(Patch(req, 0, <<ICMP_TYPE_ECHO_REPLY>>), 2, <<0, 0>>)
        tx == Patch(tx0, 2, store16(icmp_resp_checksum(tx0)))
    IN  ip_out(txbuf_init(w, tx), tx, src_ip, NET_PROTOCOL_ICMP)

\* the ECHO_REPLY branch of icmp_in: match the reply with an echo record
\* the reply handling leaving the echo record in the map
icmp_reply_in_keeps_record(w, b, src_ip) ==
    LET seq == load16(b, 6)
    IN  IF ~map_live(w.icmp_ping_requests, w.now, seq) THEN w
        ELSE
          LET request == map_get(w.icmp_ping_requests, w.now, seq)
              response_time == (w.now - request.timestamp) * 1000
              received == w.icmp_stats.received + 1
              s == w.icmp_stats
          IN  [w EXCEPT
                 !.icmp_stats =
                     [sent |-> s.sent,
                      received |-> received,
                      total_time |-> s.total_time + response_time,
                      min_time |-> IF received = 1 \/ response_time < s.min_time
                                   THEN response_time ELSE s.min_time,
                      max_time |-> IF response_time > s.max_time
                                   THEN response_time ELSE s.max_time]]

icmp_reply_in(w, b, src_ip) ==
    LET seq == load16(b, 6)
    IN  IF ~map_live(w.icmp_ping_requests, w.now, seq) THEN w
        ELSE
          LET request == map_get(w.icmp_ping_requests, w.now, seq)
              response_time == (w.now - request.timestamp) * 1000
              received == w.icmp_stats.received + 1
              s == w.icmp_stats
          IN  [w EXCEPT
                 !.icmp_stats =
                     [sent |-> s.sent,
                      received |-> received,
                      total_time |-> s.total_time + response_time,
                      min_time |-> IF received = 1 \/ response_time < s.min_time
                                   THEN response_time ELSE s.min_time,
                      max_time |-> IF response_time > s.max_time
                                   THEN response_time ELSE s.max_time],
                 !.icmp_ping_requests = map_delete(@, seq)]

icmp_in(w, rx, src_ip) ==
    IF Len(rx.data) < ICMP_HDR_LEN THEN w
    ELSE IF rx.data[1] = ICMP_TYPE_ECHO_REQUEST THEN icmp_resp(w, rx.data, src_ip)
    ELSE IF rx.data[1] = ICMP_TYPE_ECHO_REPLY THEN icmp_reply_in(w, rx.data, src_ip)
    ELSE w

\* icmp_ping_request advancing icmp_ping_id by two for each request
icmp_ping_request_id_ahead(w, dest_ip) ==
    LET seq == w.icmp_stats.sent % 65536
        tx0 == <<ICMP_TYPE_ECHO_REQUEST, 0, 0, 0>> \o store16(w.icmp_ping_id) \o store16(seq)
               \o [i \in 1..56 |-> (i - 1) % 256]
        tx == Patch(tx0, 2, store16(icmp_resp_checksum(tx0)))
        request == [id |-> w.icmp_ping_id, seq |-> seq, timestamp |-> w.now,
                    dest_ip |-> dest_ip]
        w1 == [w EXCEPT !.icmp_ping_requests = map_set(@, w.now, seq, request)]
        w2 == ip_out(txbuf_init(w1, tx), tx, dest_ip, NET_PROTOCOL_ICMP)
    IN  [w2 EXCEPT !.icmp_stats.sent = @ + 1,
                   !.icmp_ping_id = (@ + 2) % 65536]

\* icmp_ping_request(dest_ip): an echo request with 56 bytes of payload, id =
\* icmp_ping_id and seq = icmp_stats.sent (both stored as native values); an
\* echo record is kept under seq.  The message has an even length, so the
\* checksum is the one icmp_resp_checksum takes for an even length (the code
\* repeats the two branches of icmp_resp)
icmp_ping_request(w, dest_ip) ==
    LET seq == w.icmp_stats.sent % 65536
        tx0 == <<ICMP_TYPE_ECHO_REQUEST, 0, 0, 0>> \o store16(w.icmp_ping_id) \o store16(seq)
               \o [i \in 1..56 |-> (i - 1) % 256]
        tx == Patch(tx0, 2, store16(icmp_resp_checksum(tx0)))
        request == [id |-> w.icmp_ping_id, seq |-> seq, timestamp |-> w.now,
                    dest_ip |-> dest_ip]
        w1 == [w EXCEPT !.icmp_ping_requests = map_set(@, w.now, seq, request)]
        w2 == ip_out(txbuf_init(w1, tx), tx, dest_ip, NET_PROTOCOL_ICMP)
    IN  [w2 EXCEPT !.icmp_stats.sent = @ + 1,
                   !.icmp_ping_id = (@ + 1) % 65536]

\* icmp_get_pending_requests_count()
icmp_get_pending_requests_count(w) == map_size(w.icmp_ping_requests, w.now)

\* the checksum icmp_unreachable writes: an odd trailing byte is added as the
\* high byte of a native word
icmp_unreachable_checksum(tx) ==
    IF Len(tx) % 2 = 1
    THEN Not16(FoldCarry(SumWords(tx, 0, (Len(tx) \div 2) - 1) + tx[Len(tx)] * 256))
    ELSE checksum16(tx, Len(tx) \div 2)

\* icmp_unreachable taking every IP header to be 20 bytes long
icmp_unreachable_fixed_header(w, recv, src_ip, code) ==
    LET ip_hdr_len == IP_HDR_LEN
        data_to_copy == IF Len(recv) < ip_hdr_len + 8 THEN Len(recv) - ip_hdr_len ELSE 8
        icmp_data_len == ip_hdr_len + data_to_copy
        tx0 == <<ICMP_TYPE_UNREACH, code, 0, 0, 0, 0, 0, 0>> \o Take(recv, icmp_data_len)
        tx == Patch(tx0, 2, store16(icmp_unreachable_checksum(tx0)))
    IN  ip_out(txbuf_init(w, tx), tx, src_ip, NET_PROTOCOL_ICMP)

\* recv is the received IP packet from its header on
icmp_unreachable(w, recv, src_ip, code) ==
    LET ip_hdr_len == ((recv[1] % 16) * 4) % 256
        data_to_copy == IF Len(recv) < ip_hdr_len + 8 THEN Len(recv) - ip_hdr_len ELSE 8
        icmp_data_len == ip_hdr_len + data_to_copy
        tx0 == <<ICMP_TYPE_UNREACH, code, 0, 0, 0, 0, 0, 0>> \o Take(recv, icmp_data_len)
        tx == Patch(tx0, 2, store16(icmp_unreachable_checksum(tx0)))
    IN  ip_out(txbuf_init(w, tx), tx, src_ip, NET_PROTOCOL_ICMP)

----------------------------------------------------------------------------
(* UDP *)

udp_src_port(b) == swap16(load16(b, 0))
udp_dst_port(b) == swap16(load16(b, 2))
udp_total_len(b) == swap16(load16(b, 4))

\* udp_in without the comparison of the checksums
udp_in_accepts_any_checksum(w, b, src_ip) ==
    /\ Len(b) >= UDP_HDR_LEN
    /\ Len(b) >= udp_total_len(b)

\* the checks of udp_in: lengths, then the checksum recomputed with the field
\* zeroed against the received one
udp_in_accepts(w, b, src_ip) ==
    /\ Len(b) >= UDP_HDR_LEN
    /\ Len(b) >= udp_total_len(b)
    /\ load16(b, 6) = transport_checksum(NET_PROTOCOL_UDP, Patch(b, 6, <<0, 0>>),
                                         src_ip, w.net_if_ip)

\* rx.data is the datagram, rx.pre the bytes in front of it in the receive
\* buffer (the IP header that ip_in removed); the checksum field stays zeroed
udp_in(w, rx, src_ip) ==
    IF ~udp_in_accepts(w, rx.data, src_ip) THEN w
    ELSE
      LET b == Patch(rx.data, 6, <<0, 0>>)
          dst_port == udp_dst_port(b)
      IN  IF ~map_live(w.udp_table, w.now, dst_port)
          THEN icmp_unreachable(w, Drop(rx.pre, Len(rx.pre) - IP_HDR_LEN) \o b,
                                src_ip, ICMP_CODE_PORT_UNREACH)
          ELSE Note(w, [fn |-> "udp_handler",
                        handler |-> map_get(w.udp_table, w.now, dst_port),
                        data |-> Drop(b, UDP_HDR_LEN),
                        len |-> Len(b) - UDP_HDR_LEN,
                        src_ip |-> src_ip,
                        src_port |-> udp_src_port(b)])

\* udp_out computing the checksum before it has written the ports
udp_out_checksum_before_ports(w, buf, src_port, dst_ip, dst_port) ==
    LET seg0 == store16(swap16(src_port)) \o store16(swap16(dst_port))
                \o store16(swap16((Len(buf) + UDP_HDR_LEN) % 65536)) \o <<0, 0>> \o buf
        seg == Patch(seg0, 6, store16(transport_checksum(NET_PROTOCOL_UDP,
                                          Patch(seg0, 0, <<0, 0, 0, 0>>),
                                          w.net_if_ip, dst_ip)))
    IN  ip_out(w, seg, dst_ip, NET_PROTOCOL_UDP)

udp_out(w, buf, src_port, dst_ip, dst_port) ==
    LET seg0 == store16(swap16(src_port)) \o store16(swap16(dst_port))
                \o store16(swap16((Len(buf) + UDP_HDR_LEN) % 65536)) \o <<0, 0>> \o buf
        seg == Patch(seg0, 6, store16(transport_checksum(NET_PROTOCOL_UDP, seg0,
                                                         w.net_if_ip, dst_ip)))
    IN  ip_out(buf_add_header(w, buf, seg), seg, dst_ip, NET_PROTOCOL_UDP)

udp_send(w, data, src_port, dst_ip, dst_port) ==
    udp_out(txbuf_init(w, data), data, src_port, dst_ip, dst_port)

udp_open(w, port, handler) == [w EXCEPT !.udp_table = map_set(@, w.now, port, handler)]

\* udp_close leaving the table as it is
udp_close_keeps_handler(w, port) == w

udp_close(w, port) == [w EXCEPT !.udp_table = map_delete(@, port)]

----------------------------------------------------------------------------
(* IPv4 receive *)

\* the protocols net_init registers above IPv4
net_registered(protocol) ==
    protocol \in {NET_PROTOCOL_ICMP, NET_PROTOCOL_UDP, NET_PROTOCOL_TCP}

\* net_in: the handler registered for protocol runs on the buffer
net_in(w, rx, protocol, src) ==
    LET w0 == Note(w, [fn |-> "net_handler", protocol |-> protocol,
                       data |-> rx.data, src |-> src])
    IN  IF protocol = NET_PROTOCOL_ICMP THEN icmp_in(w0, rx, src)
        ELSE IF protocol = NET_PROTOCOL_UDP THEN udp_in(w0, rx, src)
        ELSE w0

ip_hdr_len_of(b) == ((b[1] % 16) * IP_HDR_LEN_PER_BYTE) % 256
ip_total_len_of(b) == swap16(load16(b, 2))
ip_protocol_of(b) == b[10]
ip_src_of(b) == SubSeq(b, 13, 16)
ip_dst_of(b) == SubSeq(b, 17, 20)

\* ip_in without the comparison of the destination address
ip_in_accepts_any_dst(w, b) ==
    /\ Len(b) >= IP_HDR_LEN
    /\ b[1] \div 16 = IP_VERSION_4
    /\ ip_hdr_len_of(b) >= IP_HDR_LEN
    /\ ip_total_len_of(b) <= Len(b)
    /\ ip_total_len_of(b) >= ip_hdr_len_of(b)
    /\ checksum16(Patch(b, 10, <<0, 0>>), ip_hdr_len_of(b) \div 2) = load16(b, 10)

\* the checks of ip_in, in the order of the code
ip_in_accepts(w, b) ==
    /\ Len(b) >= IP_HDR_LEN
    /\ b[1] \div 16 = IP_VERSION_4
    /\ ip_hdr_len_of(b) >= IP_HDR_LEN
    /\ ip_total_len_of(b) <= Len(b)
    /\ ip_total_len_of(b) >= ip_hdr_len_of(b)
    /\ checksum16(Patch(b, 10, <<0, 0>>), ip_hdr_len_of(b) \div 2) = load16(b, 10)
    /\ ip_dst_of(b) = w.net_if_ip

ip_in(w, b) ==
    IF ~ip_in_accepts(w, b) THEN w
    ELSE
      LET trimmed == Take(b, ip_total_len_of(b))
          rx == [pre |-> Take(trimmed, ip_hdr_len_of(b)),
                 data |-> Drop(trimmed, ip_hdr_len_of(b))]
      IN  IF net_registered(ip_protocol_of(b))
          THEN net_in(w, rx, ip_protocol_of(b), ip_src_of(b))
          ELSE icmp_unreachable(w, rx.pre \o rx.data, ip_src_of(b),
                                ICMP_CODE_PROTOCOL_UNREACH)

----------------------------------------------------------------------------
(* IPv6 *)

NET_IPV6_LEN == 16
IPV6_HDR_LEN == 40
IPV6_VERSION == 6
IPV6_DEFAULT_HOP_LIMIT == 64
IPV6_NEXT_HEADER_ICMPV6 == 58
IPV6_NEXT_HEADER_TCP == 6
IPV6_NEXT_HEADER_UDP == 17
NET_PROTOCOL_IPV6 == 34525

ipv6_all_nodes_multicast == <<255, 2, 0, 0, 0, 0, 0, 0, 0, 0, 0, 0, 0, 0, 0, 1>>

\* a ^ b and a & b on unsigned values
RECURSIVE BitXor(_, _)
BitXor(a, b) ==
    IF a = 0 THEN b
    ELSE IF b = 0 THEN a
    ELSE ((a + b) % 2) + 2 * BitXor(a \div 2, b \div 2)

RECURSIVE BitAnd(_, _)
BitAnd(a, b) ==
    IF a = 0 \/ b = 0 THEN 0
    ELSE ((a % 2) * (b % 2)) + 2 * BitAnd(a \div 2, b \div 2)

\* the bytes in memory of swap32(v): the four bytes of v, highest first
store_swap32(v) ==
    <<(v \div 16777216) % 256, (v \div 65536) % 256, (v \div 256) % 256, v % 256>>

\* a | b
BitOr(a, b) == BitXor(a, b) + BitAnd(a, b)

\* the setter with the traffic class shifted by 24 instead of 20
ipv6_set_version_tc_flow_tc_shift_24(version, tc, flow) ==
    LET hi == BitOr(BitOr((version % 16) * 4096, (tc * 256) % 65536),
                    (flow \div 65536) % 16)
        lo == flow % 65536
    IN  <<hi \div 256, hi % 256, lo \div 256, lo % 256>>

\* ipv6_set_version_tc_flow: the bytes of hdr->version_tc_flow after
\* value = ((uint32_t)version << 28) | ((uint32_t)tc << 20) | (flow & 0x000FFFFF)
\* and hdr->version_tc_flow = swap32(value).  The 32-bit value is kept as its
\* two 16-bit halves hi and lo (flow & 0xFFFFF puts four bits into hi, the
\* shifts reach hi only, and the shift by 28 keeps the low four bits of
\* version); swap32 stored into the native field leaves the bytes of value in
\* memory, highest first
ipv6_set_version_tc_flow(version, tc, flow) ==
    LET hi == BitOr(BitOr((version % 16) * 4096, (tc % 256) * 16),
                    (flow \div 65536) % 16)
        lo == flow % 65536
    IN  <<hi \div 256, hi % 256, lo \div 256, lo % 256>>

\* the getters read swap32(hdr->version_tc_flow): value >> 28, value >> 20 and
\* value itself, masked
ipv6_get_version(b) == b[1] \div 16
ipv6_get_traffic_class(b) == ((b[1] * 256 + b[2]) \div 16) % 256
ipv6_get_flow_label(b) == (b[2] % 16) * 65536 + b[3] * 256 + b[4]
ipv6_payload_len_of(b) == swap16(load16(b, 4))
ipv6_next_header_of(b) == b[7]
ipv6_src_of(b) == SubSeq(b, 9, 24)
ipv6_dst_of(b) == SubSeq(b, 25, 40)

ipv6_addr_equal(ip1, ip2) == ip1 = ip2

\* ipv6_init leaving the interface identifier's U/L bit as the MAC has it
ipv6_init_keeps_ul_bit(w) ==
    [w EXCEPT !.net_if_ipv6 =
        <<254, 128, 0, 0, 0, 0, 0, 0,
          w.net_if_mac[1], w.net_if_mac[2], w.net_if_mac[3], 255, 254,
          w.net_if_mac[4], w.net_if_mac[5], w.net_if_mac[6]>>]

\* ipv6_init: the link-local address with the EUI-64 of the interface MAC
ipv6_init(w) ==
    [w EXCEPT !.net_if_ipv6 =
        <<254, 128, 0, 0, 0, 0, 0, 0,
          BitXor(w.net_if_mac[1], 2), w.net_if_mac[2], w.net_if_mac[3], 255, 254,
          w.net_if_mac[4], w.net_if_mac[5], w.net_if_mac[6]>>]

\* the destination MAC of ipv6_out taking every fe.. address for link-local
ipv6_out_dst_mac_any_fe(ip) ==
    IF ip[1] = 255
    THEN <<51, 51, ip[13], ip[14], ip[15], ip[16]>>
    ELSE IF ip[1] = 254
    THEN <<BitXor(ip[9], 2), ip[10], ip[11], ip[14], ip[15], ip[16]>>
    ELSE <<255, 255, 255, 255, 255, 255>>

\* the destination MAC of ipv6_out skipping only the ff of the ff:fe filler
ipv6_out_dst_mac_keeps_fe(ip) ==
    IF ip[1] = 255
    THEN <<51, 51, ip[13], ip[14], ip[15], ip[16]>>
    ELSE IF ip[1] = 254 /\ BitAnd(ip[2], 192) = 128
    THEN <<BitXor(ip[9], 2), ip[10], ip[11], ip[13], ip[14], ip[15]>>
    ELSE <<255, 255, 255, 255, 255, 255>>

\* the destination MAC ipv6_out derives from the destination address ip
ipv6_out_dst_mac(ip) ==
    IF ip[1] = 255
    THEN <<51, 51, ip[13], ip[14], ip[15], ip[16]>>
    ELSE IF ip[1] = 254 /\ BitAnd(ip[2], 192) = 128
    THEN <<BitXor(ip[9], 2), ip[10], ip[11], ip[14], ip[15], ip[16]>>
    ELSE <<255, 255, 255, 255, 255, 255>>

\* the 40-byte header ipv6_out writes in front of a payload of n bytes
ipv6_hdr(w, n, ip, next_header) ==
    ipv6_set_version_tc_flow(IPV6_VERSION, 0, 0) \o store16(swap16(n % 65536))
    \o <<next_header, IPV6_DEFAULT_HOP_LIMIT>> \o w.net_if_ipv6 \o ip

ipv6_out(w, buf, ip, next_header) ==
    LET w0 == Note(w, [fn |-> "ipv6_out", buf |-> buf, ip |-> ip,
                       next_header |-> next_header])
        pkt == ipv6_hdr(w0, Len(buf), ip, next_header) \o buf
    IN  ethernet_out(buf_add_header(w0, buf, pkt), pkt, ipv6_out_dst_mac(ip),
                     NET_PROTOCOL_IPV6)

----------------------------------------------------------------------------
(* ICMPv6 *)

ICMPV6_TYPE_DEST_UNREACH == 1
ICMPV6_TYPE_ECHO_REQUEST == 128
ICMPV6_TYPE_ECHO_REPLY == 129
ICMPV6_TYPE_NS == 135
ICMPV6_TYPE_NA == 136
NDP_OPTION_SOURCE_LLA == 1
NDP_OPTION_TARGET_LLA == 2
ICMPV6_NA_FLAG_SOLICITED == 1073741824
ICMPV6_NA_FLAG_OVERRIDE == 536870912
\* sizeof(icmpv6_hdr_t) and sizeof(icmpv6_ns_t)
ICMPV6_HDR_LEN == 4
ICMPV6_NS_LEN == 24

\* sum of the big-endian 16-bit words number lo..hi (0-based) of b
RECURSIVE SumWordsBE(_, _, _)
SumWordsBE(b, lo, hi) ==
    IF lo > hi THEN 0
    ELSE IF lo = hi THEN b[2 * lo + 1] * 256 + b[2 * lo + 2]
    ELSE LET mid == (lo + hi) \div 2
         IN  SumWordsBE(b, lo, mid) + SumWordsBE(b, mid + 1, hi)

\* the folded sum icmpv6_checksum complements: the pseudo-header (src, dst,
\* the length as two 16-bit halves, next header 58) and the message, an odd
\* last byte as the high byte of a word
icmpv6_sum(b, src_ip, dst_ip) ==
    FoldCarry(SumWordsBE(src_ip, 0, (NET_IPV6_LEN \div 2) - 1)
              + SumWordsBE(dst_ip, 0, (NET_IPV6_LEN \div 2) - 1)
              + ((Len(b) \div 65536) % 65536) + (Len(b) % 65536)
              + IPV6_NEXT_HEADER_ICMPV6
              + SumWordsBE(b, 0, (Len(b) \div 2) - 1)
              + (IF Len(b) % 2 = 1 THEN b[Len(b)] * 256 ELSE 0))

\* icmpv6_checksum(buf, src_ip, dst_ip): the value for the native checksum16
\* field
icmpv6_checksum(b, src_ip, dst_ip) == swap16(Not16(icmpv6_sum(b, src_ip, dst_ip)))

\* icmpv6_echo_reply answering with the request's type
icmpv6_echo_reply_keeps_type(w, req, src_ip) ==
    LET tx0 == Patch(req, 2, <<0, 0>>)
        tx == Patch(tx0, 2, store16(icmpv6_checksum(tx0, w.net_if_ipv6, src_ip)))
    IN  ipv6_out(txbuf_init(w, tx), tx, src_ip, IPV6_NEXT_HEADER_ICMPV6)

icmpv6_echo_reply(w, req, src_ip) ==
    LET tx0 == Patch(req, 0, <<ICMPV6_TYPE_ECHO_REPLY, 0, 0, 0>>)
        tx == Patch(tx0, 2, store16(icmpv6_checksum(tx0, w.net_if_ipv6, src_ip)))
    IN  ipv6_out(txbuf_init(w, tx), tx, src_ip, IPV6_NEXT_HEADER_ICMPV6)

\* icmpv6_send_na(target_ip, dest_ip, solicited)
icmpv6_send_na(w, target_ip, dest_ip, solicited) ==
    LET flags == ICMPV6_NA_FLAG_OVERRIDE
                 + (IF solicited # 0 THEN ICMPV6_NA_FLAG_SOLICITED ELSE 0)
        tx0 == <<ICMPV6_TYPE_NA, 0, 0, 0>> \o store_swap32(flags) \o target_ip
               \o <<NDP_OPTION_TARGET_LLA, 1>> \o w.net_if_mac
        tx == Patch(tx0, 2, store16(icmpv6_checksum(tx0, w.net_if_ipv6, dest_ip)))
    IN  ipv6_out(txbuf_init(w, tx), tx, dest_ip, IPV6_NEXT_HEADER_ICMPV6)

icmpv6_ns_target(b) == SubSeq(b, 9, 24)

\* icmpv6_handle_ns advertising whatever address is solicited
icmpv6_handle_ns_any_target(w, b, src_ip) ==
    IF Len(b) < ICMPV6_NS_LEN THEN w
    ELSE icmpv6_send_na(w, icmpv6_ns_target(b), src_ip, 1)

icmpv6_handle_ns(w, b, src_ip) ==
    IF Len(b) < ICMPV6_NS_LEN THEN w
    ELSE IF ~ipv6_addr_equal(icmpv6_ns_target(b), w.net_if_ipv6) THEN w
    ELSE icmpv6_send_na(w, icmpv6_ns_target(b), src_ip, 1)

\* icmpv6_handle_na only logs
icmpv6_handle_na(w, b, src_ip) == w

\* the checksum test of icmpv6_in: the field against icmpv6_checksum of the
\* message with the field zeroed, the pseudo-header's destination being
\* net_if_ipv6
icmpv6_in_accepts(w, b, src_ip) ==
    /\ Len(b) >= ICMPV6_HDR_LEN
    /\ icmpv6_checksum(Patch(b, 2, <<0, 0>>), src_ip, w.net_if_ipv6) = load16(b, 2)

icmpv6_in(w, b, src_ip) ==
    LET w0 == Note(w, [fn |-> "icmpv6_in", data |-> b, src |-> src_ip])
    IN  IF ~icmpv6_in_accepts(w0, b, src_ip) THEN w0
        ELSE IF b[1] = ICMPV6_TYPE_ECHO_REQUEST THEN icmpv6_echo_reply(w0, b, src_ip)
        ELSE IF b[1] = ICMPV6_TYPE_NS THEN icmpv6_handle_ns(w0, b, src_ip)
        ELSE IF b[1] = ICMPV6_TYPE_NA THEN icmpv6_handle_na(w0, b, src_ip)
        ELSE w0

\* icmpv6_unreachable(recv_buf, src_ip, code)
icmpv6_unreachable(w, recv, src_ip, code) ==
    LET max_orig_len == 1280 - IPV6_HDR_LEN - 8
        orig_len == IF Len(recv) < max_orig_len THEN Len(recv) ELSE max_orig_len
        tx0 == <<ICMPV6_TYPE_DEST_UNREACH, code, 0, 0, 0, 0, 0, 0>> \o Take(recv, orig_len)
        tx == Patch(tx0, 2, store16(icmpv6_checksum(tx0, w.net_if_ipv6, src_ip)))
    IN  ipv6_out(txbuf_init(w, tx), tx, src_ip, IPV6_NEXT_HEADER_ICMPV6)

\* icmpv6_echo_request(dest_ip, id, seq, data, data_len)
icmpv6_echo_request(w, dest_ip, id, seq, data) ==
    LET tx0 == <<ICMPV6_TYPE_ECHO_REQUEST, 0, 0, 0>> \o store16(swap16(id))
               \o store16(swap16(seq)) \o data
        tx == Patch(tx0, 2, store16(icmpv6_checksum(tx0, w.net_if_ipv6, dest_ip)))
    IN  ipv6_out(txbuf_init(w, tx), tx, dest_ip, IPV6_NEXT_HEADER_ICMPV6)

solicited_node_multicast(target_ip) ==
    <<255, 2, 0, 0, 0, 0, 0, 0, 0, 0, 0, 1, 255,
      target_ip[14], target_ip[15], target_ip[16]>>

\* icmpv6_send_ns(target_ip)
icmpv6_send_ns(w, target_ip) ==
    LET tx0 == <<ICMPV6_TYPE_NS, 0, 0, 0, 0, 0, 0, 0>> \o target_ip
               \o <<NDP_OPTION_SOURCE_LLA, 1>> \o w.net_if_mac
        dst == solicited_node_multicast(target_ip)
        tx == Patch(tx0, 2, store16(icmpv6_checksum(tx0, w.net_if_ipv6, dst)))
    IN  ipv6_out(txbuf_init(w, tx), tx, dst, IPV6_NEXT_HEADER_ICMPV6)

\* the checks of ipv6_in before it hands the payload up
\* the checks of ipv6_in accepting every multicast destination
ipv6_in_accepts_any_multicast(w, b) ==
    /\ Len(b) >= IPV6_HDR_LEN
    /\ ipv6_get_version(b) = IPV6_VERSION
    /\ ipv6_payload_len_of(b) <= Len(b) - IPV6_HDR_LEN
    /\ \/ ipv6_addr_equal(ipv6_dst_of(b), w.net_if_ipv6)
       \/ ipv6_dst_of(b)[1] = 255

ipv6_in_accepts(w, b) ==
    /\ Len(b) >= IPV6_HDR_LEN
    /\ ipv6_get_version(b) = IPV6_VERSION
    /\ ipv6_payload_len_of(b) <= Len(b) - IPV6_HDR_LEN
    /\ \/ ipv6_addr_equal(ipv6_dst_of(b), w.net_if_ipv6)
       \/ ipv6_addr_equal(ipv6_dst_of(b), ipv6_all_nodes_multicast)

ipv6_in(w, b) ==
    IF ~ipv6_in_accepts(w, b) THEN w
    ELSE LET total_len == IPV6_HDR_LEN + ipv6_payload_len_of(b)
             rx == [pre |-> Take(b, IPV6_HDR_LEN),
                    data |-> SubSeq(b, IPV6_HDR_LEN + 1, total_len)]
             src_ip == ipv6_src_of(b)
         IN  IF ipv6_next_header_of(b) = IPV6_NEXT_HEADER_ICMPV6
             THEN icmpv6_in(w, rx.data, src_ip)
             ELSE IF ipv6_next_header_of(b) = IPV6_NEXT_HEADER_TCP
             THEN net_in(w, rx, NET_PROTOCOL_TCP, src_ip)
             ELSE IF ipv6_next_header_of(b) = IPV6_NEXT_HEADER_UDP
             THEN net_in(w, rx, NET_PROTOCOL_UDP, src_ip)
             ELSE w

----------------------------------------------------------------------------
(* The FTP server application (app/ftp_server.c) *)

\* a C string is the sequence of its characters, each a one-character string;
\* the terminating NUL is not part of it
FTP_CTRL_PORT == 21
FTP_DATA_PORT_BASE == 20000
FTP_MAX_PATH_LENGTH == 512
FTP_MAX_CMD_LENGTH == 256
FTP_MAX_SESSIONS == 16

FTP_RESP_GOODBYE == "221"
FTP_RESP_TRANSFER_OK == "226"
FTP_RESP_PASV_OK == "227"
FTP_RESP_LOGIN_OK == "230"
FTP_RESP_FILE_ACTION_OK == "250"
FTP_RESP_PATH_CREATED == "257"
FTP_RESP_NEED_PASSWORD == "331"
FTP_RESP_SERVICE_NA == "421"
FTP_RESP_CANT_OPEN_DATA == "425"
FTP_RESP_INSUFFICIENT == "452"
FTP_RESP_PARAM_ERROR == "501"
FTP_RESP_CMD_NOT_IMPL == "502"
FTP_RESP_BAD_SEQUENCE == "503"
FTP_RESP_NOT_LOGGED_IN == "530"
FTP_RESP_FILE_NOT_FOUND == "550"
FTP_RESP_TYPE_OK == "200"
FTP_RESP_SYST_OK == "215"

\* ftp_state_t
FTP_STATE_CONNECTED == 0
FTP_STATE_USER_OK == 1
FTP_STATE_LOGGED_IN == 2
FTP_STATE_PASV_WAIT == 3
FTP_STATE_DATA_TRANSFER == 4

\* ftp_transfer_type_t
FTP_TYPE_ASCII == 0
FTP_TYPE_BINARY == 1

\* ftp_data_op_t
FTP_DATA_OP_NONE == 0
FTP_DATA_OP_LIST == 1
FTP_DATA_OP_RETR == 2
FTP_DATA_OP_STOR == 3

\* the root directory of the build
FTP_ROOT_DIR == <<"/", "s", "r", "v">>

\* a null tcp_conn_t pointer; a connection is <<local port, peer ip, peer port>>
NULL == <<>>

\* strncpy(dst, src, n) and snprintf(dst, n + 1, ..): at most n characters
strncpy(src, n) == IF Len(src) > n THEN SubSeq(src, 1, n) ELSE src

\* the characters isspace accepts, which the %s and the blank of sscanf skip
Whitespace == {" ", "\t", "\n", "\r", "\f"}

LowerCase ==
    <<"a", "b", "c", "d", "e", "f", "g", "h", "i", "j", "k", "l", "m",
      "n", "o", "p", "q", "r", "s", "t", "u", "v", "w", "x", "y", "z">>
UpperCase ==
    <<"A", "B", "C", "D", "E", "F", "G", "H", "I", "J", "K", "L", "M",
      "N", "O", "P", "Q", "R", "S", "T", "U", "V", "W", "X", "Y", "Z">>

\* cmd[i] -= 32 for a lower-case letter
toupper(ch) ==
    IF \E k \in 1..26 : LowerCase[k] = ch
    THEN UpperCase[CHOOSE k \in 1..26 : LowerCase[k] = ch]
    ELSE ch

\* the index of the first character of s from index i on that is in (inside)
\* or not in (~inside) the set cs, Len(s) + 1 if there is none
FirstFrom(s, i, cs, inside) ==
    LET hits == {k \in i..Len(s) : (s[k] \in cs) = inside}
    IN  IF hits = {} THEN Len(s) + 1 ELSE CHOOSE k \in hits : \A j \in hits : k <= j

\* strstr(s, "\r\n"): the index of the first CR that an LF follows, 0 if none
strstr_crlf(s) ==
    LET hits == {k \in 1..(Len(s) - 1) : s[k] = "\r" /\ s[k + 1] = "\n"}
    IN  IF hits = {} THEN 0 ELSE CHOOSE k \in hits : \A j \in hits : k <= j

\* the command line of ftp_ctrl_handler: the first FTP_MAX_CMD_LENGTH - 1
\* bytes, cut at the first CR LF, then at the first LF, then at the first CR
ftp_cmd_buf(data) ==
    LET b0 == strncpy(data, FTP_MAX_CMD_LENGTH - 1)
        b1 == IF strstr_crlf(b0) # 0 THEN SubSeq(b0, 1, strstr_crlf(b0) - 1) ELSE b0
        b2 == SubSeq(b1, 1, FirstFrom(b1, 1, {"\n"}, TRUE) - 1)
    IN  SubSeq(b2, 1, FirstFrom(b2, 1, {"\r"}, TRUE) - 1)

\* sscanf(cmd_buf, "%15s %[^\n]", cmd, arg) and the conversion of cmd to upper
\* case: cmd is the first word, at most 15 characters of it, and arg is what
\* follows the whitespace after those characters
ftp_parse(data) ==
    LET b == ftp_cmd_buf(data)
        from == FirstFrom(b, 1, Whitespace, FALSE)
        stop == FirstFrom(b, from, Whitespace, TRUE)
        to == IF stop - from > 15 THEN from + 15 ELSE stop
        word == SubSeq(b, from, to - 1)
        rest == FirstFrom(b, to, Whitespace, FALSE)
    IN  [cmd |-> [k \in 1..Len(word) |-> toupper(word[k])],
         arg |-> SubSeq(b, rest, Len(b))]

\* the sessions are ftp_sessions[0] .. ftp_sessions[FTP_MAX_SESSIONS - 1]
FtpSlots == 0..(FTP_MAX_SESSIONS - 1)

\* a session after memset(.., 0, sizeof(ftp_session_t))
ZeroSession ==
    [active |-> 0, client_ip |-> <<0, 0, 0, 0>>, client_port |-> 0,
     state |-> FTP_STATE_CONNECTED, transfer_type |-> FTP_TYPE_ASCII,
     current_dir |-> <<>>, username |-> <<>>, data_port |-> 0,
     pending_op |-> FTP_DATA_OP_NONE, pending_path |-> <<>>, ctrl_conn |-> NULL]

\* the least element of a nonempty set of slots
FirstSlot(S) == CHOOSE i \in S : \A j \in S : i <= j

\* ftp_get_real_path(session, path, out, out_len)
ftp_get_real_path(session, path) ==
    strncpy(IF Len(path) > 0 /\ path[1] = "/"
            THEN FTP_ROOT_DIR \o path
            ELSE IF session.current_dir = <<"/">>
            THEN FTP_ROOT_DIR \o <<"/">> \o path
            ELSE FTP_ROOT_DIR \o session.current_dir \o <<"/">> \o path,
            FTP_MAX_PATH_LENGTH - 1)

\* ftp_get_session(client_ip, client_port, create): the slot of the session,
\* -1 for a null pointer, and the table after the call
ftp_get_session(w, client_ip, client_port, create) ==
    LET match == {i \in FtpSlots : /\ w.ftp_sessions[i].active # 0
                                   /\ w.ftp_sessions[i].client_ip = client_ip
                                   /\ w.ftp_sessions[i].client_port = client_port}
        free == {i \in FtpSlots : w.ftp_sessions[i].active = 0}
    IN  IF match # {} THEN [session |-> FirstSlot(match), w |-> w]
        ELSE IF create # 0 /\ free # {}
        THEN [session |-> FirstSlot(free),
              w |-> [w EXCEPT !.ftp_sessions[FirstSlot(free)] =
                        [ZeroSession EXCEPT !.active = 1,
                                            !.client_ip = client_ip,
                                            !.client_port = client_port,
                                            !.state = FTP_STATE_CONNECTED,
                                            !.transfer_type = FTP_TYPE_ASCII,
                                            !.current_dir = <<"/">>]]]
        ELSE [session |-> -1, w |-> w]

\* ftp_get_session_by_data_port(data_port): the slot, -1 for a null pointer
ftp_get_session_by_data_port(w, data_port) ==
    LET match == {i \in FtpSlots : /\ w.ftp_sessions[i].active # 0
                                   /\ w.ftp_sessions[i].data_port = data_port}
    IN  IF match # {} THEN FirstSlot(match) ELSE -1

\* tcp_open(port, handler): the TCP layer listens on the port
tcp_open(w, port, handler) ==
    LET w0 == Note(w, [fn |-> "tcp_open", port |-> port, handler |-> handler])
    IN  [w0 EXCEPT !.tcp_table =
            [p \in (DOMAIN w.tcp_table) \cup {port} |->
                IF p = port THEN handler ELSE w.tcp_table[p]]]

\* tcp_close(port): the TCP layer stops listening on the port
tcp_close(w, port) ==
    LET w0 == Note(w, [fn |-> "tcp_close", port |-> port])
    IN  [w0 EXCEPT !.tcp_table =
            [p \in (DOMAIN w.tcp_table) \ {port} |-> w.tcp_table[p]]]

\* ftp_close_session(session)
ftp_close_session(w, session) ==
    LET w1 == IF w.ftp_sessions[session].data_port > 0
              THEN tcp_close(w, w.ftp_sessions[session].data_port)
              ELSE w
    IN  [w1 EXCEPT !.ftp_sessions[session].active = 0]

\* ftp_send_response(conn, port, dst_ip, dst_port, code, message): one
\* tcp_send of "code message\r\n"; args are the values formatted into the
\* message
ftp_send_response(w, conn, port, dst_ip, dst_port, code, message, args) ==
    Note(w, [fn |-> "tcp_send", conn |-> conn, port |-> port, dst_ip |-> dst_ip,
             dst_port |-> dst_port, code |-> code, message |-> message,
             args |-> args])

\* ftp_cmd_user(session, conn, arg, port, dst_ip, dst_port)
ftp_cmd_user(w, session, conn, arg, port, dst_ip, dst_port) ==
    LET w1 == [w EXCEPT !.ftp_sessions[session].username = strncpy(arg, 63),
                        !.ftp_sessions[session].state = FTP_STATE_USER_OK]
    IN  ftp_send_response(w1, conn, port, dst_ip, dst_port, FTP_RESP_NEED_PASSWORD,
                          "User name okay, need password.", <<>>)

\* ftp_cmd_pass: the password is not verified
ftp_cmd_pass(w, session, conn, arg, port, dst_ip, dst_port) ==
    IF w.ftp_sessions[session].state # FTP_STATE_USER_OK
    THEN ftp_send_response(w, conn, port, dst_ip, dst_port, FTP_RESP_BAD_SEQUENCE,
                           "Login with USER first.", <<>>)
    ELSE ftp_send_response([w EXCEPT !.ftp_sessions[session].state = FTP_STATE_LOGGED_IN],
                           conn, port, dst_ip, dst_port, FTP_RESP_LOGIN_OK,
                           "User logged in, proceed.", <<>>)

ftp_cmd_syst(w, session, conn, port, dst_ip, dst_port) ==
    ftp_send_response(w, conn, port, dst_ip, dst_port, FTP_RESP_SYST_OK,
                      "UNIX Type: L8", <<>>)

ftp_cmd_pwd(w, session, conn, port, dst_ip, dst_port) ==
    ftp_send_response(w, conn, port, dst_ip, dst_port, FTP_RESP_PATH_CREATED,
                      "\"%s\" is current directory.",
                      <<w.ftp_sessions[session].current_dir>>)

\* the directory ftp_cmd_cwd asks for: an absolute path, the parent ("..") or
\* a path below the current directory
ftp_cwd_new_dir(current_dir, arg) ==
    IF Len(arg) > 0 /\ arg[1] = "/"
    THEN strncpy(arg, FTP_MAX_PATH_LENGTH - 1)
    ELSE IF arg = <<".", ".">>
    THEN LET new_dir == strncpy(current_dir, FTP_MAX_PATH_LENGTH - 1)
             slashes == {k \in 1..Len(new_dir) : new_dir[k] = "/"}
             last_slash == IF slashes = {} THEN 0
                           ELSE CHOOSE k \in slashes : \A j \in slashes : j <= k
         IN  IF last_slash > 1 THEN SubSeq(new_dir, 1, last_slash - 1) ELSE <<"/">>
    ELSE IF current_dir = <<"/">>
    THEN strncpy(<<"/">> \o arg, FTP_MAX_PATH_LENGTH - 1)
    ELSE strncpy(current_dir \o <<"/">> \o arg, FTP_MAX_PATH_LENGTH - 1)

\* ftp_cmd_cwd; fs.dir_exists is the answer of ftp_check_dir_exists
ftp_cmd_cwd(w, session, conn, arg, port, dst_ip, dst_port, fs) ==
    LET new_dir == ftp_cwd_new_dir(w.ftp_sessions[session].current_dir, arg)
    IN  IF fs.dir_exists
        THEN ftp_send_response(
                 [w EXCEPT !.ftp_sessions[session].current_dir =
                               strncpy(new_dir, FTP_MAX_PATH_LENGTH - 1)],
                 conn, port, dst_ip, dst_port, FTP_RESP_FILE_ACTION_OK,
                 "Directory successfully changed.", <<>>)
        ELSE ftp_send_response(w, conn, port, dst_ip, dst_port, FTP_RESP_FILE_NOT_FOUND,
                               "Failed to change directory.", <<>>)

ftp_cmd_type(w, session, conn, arg, port, dst_ip, dst_port) ==
    IF Len(arg) > 0 /\ arg[1] \in {"A", "a"}
    THEN ftp_send_response([w EXCEPT !.ftp_sessions[session].transfer_type = FTP_TYPE_ASCII],
                           conn, port, dst_ip, dst_port, FTP_RESP_TYPE_OK,
                           "Switching to ASCII mode.", <<>>)
    ELSE IF Len(arg) > 0 /\ arg[1] \in {"I", "i"}
    THEN ftp_send_response([w EXCEPT !.ftp_sessions[session].transfer_type = FTP_TYPE_BINARY],
                           conn, port, dst_ip, dst_port, FTP_RESP_TYPE_OK,
                           "Switching to Binary mode.", <<>>)
    ELSE ftp_send_response(w, conn, port, dst_ip, dst_port, FTP_RESP_PARAM_ERROR,
                           "Unrecognized TYPE command.", <<>>)

\* ftp_cmd_pasv: the next port of the pool becomes the session's data port and
\* is opened for ftp_data_handler
ftp_cmd_pasv(w, session, conn, port, dst_ip, dst_port) ==
    LET data_port == w.next_data_port
        next == (w.next_data_port + 1) % 65536
        w1 == [w EXCEPT !.ftp_sessions[session].data_port = data_port,
                        !.next_data_port = IF next > FTP_DATA_PORT_BASE + 1000
                                           THEN FTP_DATA_PORT_BASE ELSE next]
        w2 == tcp_open(w1, data_port, "ftp_data_handler")
        w3 == [w2 EXCEPT !.ftp_sessions[session].state = FTP_STATE_PASV_WAIT]
    IN  ftp_send_response(w3, conn, port, dst_ip, dst_port, FTP_RESP_PASV_OK,
                          "Entering Passive Mode (%d,%d,%d,%d,%d,%d).",
                          w.net_if_ip \o <<(data_port \div 256) % 256, data_port % 256>>)

ftp_cmd_list(w, session, conn, arg, port, dst_ip, dst_port) ==
    IF /\ w.ftp_sessions[session].state # FTP_STATE_PASV_WAIT
       /\ w.ftp_sessions[session].state # FTP_STATE_LOGGED_IN
    THEN ftp_send_response(w, conn, port, dst_ip, dst_port, FTP_RESP_CANT_OPEN_DATA,
                           "Use PASV first.", <<>>)
    ELSE LET real_path ==
                 IF Len(arg) > 0
                 THEN ftp_get_real_path(w.ftp_sessions[session], arg)
                 ELSE strncpy(FTP_ROOT_DIR \o w.ftp_sessions[session].current_dir,
                              FTP_MAX_PATH_LENGTH - 1)
             w1 == [w EXCEPT !.ftp_sessions[session].pending_op = FTP_DATA_OP_LIST,
                             !.ftp_sessions[session].pending_path =
                                 strncpy(real_path, FTP_MAX_PATH_LENGTH - 1),
                             !.ftp_sessions[session].ctrl_conn = conn]
         IN  ftp_send_response(w1, conn, port, dst_ip, dst_port, "150",
                               "Here comes the directory listing.", <<>>)

\* ftp_cmd_retr; fs.readable is the answer of ftp_check_file_readable
ftp_cmd_retr(w, session, conn, arg, port, dst_ip, dst_port, fs) ==
    IF /\ w.ftp_sessions[session].state # FTP_STATE_PASV_WAIT
       /\ w.ftp_sessions[session].state # FTP_STATE_LOGGED_IN
    THEN ftp_send_response(w, conn, port, dst_ip, dst_port, FTP_RESP_CANT_OPEN_DATA,
                           "Use PASV first.", <<>>)
    ELSE IF Len(arg) = 0
    THEN ftp_send_response(w, conn, port, dst_ip, dst_port, FTP_RESP_PARAM_ERROR,
                           "RETR requires filename.", <<>>)
    ELSE IF ~fs.readable
    THEN ftp_send_response(w, conn, port, dst_ip, dst_port, FTP_RESP_FILE_NOT_FOUND,
                           "File not found or not readable.", <<>>)
    ELSE LET real_path == ftp_get_real_path(w.ftp_sessions[session], arg)
             w1 == [w EXCEPT !.ftp_sessions[session].pending_op = FTP_DATA_OP_RETR,
                             !.ftp_sessions[session].pending_path =
                                 strncpy(real_path, FTP_MAX_PATH_LENGTH - 1),
                             !.ftp_sessions[session].ctrl_conn = conn]
         IN  ftp_send_response(w1, conn, port, dst_ip, dst_port, "150",
                               "Opening data connection for file transfer.", <<>>)

\* ftp_cmd_stor; fs.writable is the answer of ftp_check_write_permission, and
\* ftp_check_space_available always answers 1
ftp_cmd_stor(w, session, conn, arg, port, dst_ip, dst_port, fs) ==
    IF /\ w.ftp_sessions[session].state # FTP_STATE_PASV_WAIT
       /\ w.ftp_sessions[session].state # FTP_STATE_LOGGED_IN
    THEN ftp_send_response(w, conn, port, dst_ip, dst_port, FTP_RESP_CANT_OPEN_DATA,
                           "Use PASV first.", <<>>)
    ELSE IF Len(arg) = 0
    THEN ftp_send_response(w, conn, port, dst_ip, dst_port, FTP_RESP_PARAM_ERROR,
                           "STOR requires filename.", <<>>)
    ELSE IF ~fs.writable
    THEN ftp_send_response(w, conn, port, dst_ip, dst_port, FTP_RESP_FILE_NOT_FOUND,
                           "Permission denied.", <<>>)
    ELSE LET real_path == ftp_get_real_path(w.ftp_sessions[session], arg)
             w1 == [w EXCEPT !.ftp_sessions[session].pending_op = FTP_DATA_OP_STOR,
                             !.ftp_sessions[session].pending_path =
                                 strncpy(real_path, FTP_MAX_PATH_LENGTH - 1),
                             !.ftp_sessions[session].ctrl_conn = conn]
         IN  ftp_send_response(w1, conn, port, dst_ip, dst_port, "150",
                               "OK to send data.", <<>>)

ftp_cmd_quit(w, session, conn, port, dst_ip, dst_port) ==
    ftp_close_session(ftp_send_response(w, conn, port, dst_ip, dst_port,
                                        FTP_RESP_GOODBYE, "Goodbye.", <<>>),
                      session)

ftp_cmd_noop(w, session, conn, port, dst_ip, dst_port) ==
    ftp_send_response(w, conn, port, dst_ip, dst_port, FTP_RESP_TYPE_OK, "NOOP ok.", <<>>)

\* ftp_do_list, ftp_do_retr and ftp_do_stor_receive: the transfer of the
\* session's pending_path over the data connection (what the file system
\* holds is not modelled)
ftp_do_transfer(w, fn, session, data_conn, data_port, dst_ip, dst_port) ==
    Note(w, [fn |-> fn, session |-> session,
             pending_path |-> w.ftp_sessions[session].pending_path,
             data_conn |-> data_conn, data_port |-> data_port,
             dst_ip |-> dst_ip, dst_port |-> dst_port])

\* the session ftp_data_handler works for: the first active one that has a
\* data port, -1 if there is none
ftp_data_session(w, tcp_conn) ==
    LET found == {i \in FtpSlots : /\ w.ftp_sessions[i].active # 0
                                   /\ w.ftp_sessions[i].data_port > 0}
    IN  IF found = {} THEN -1 ELSE FirstSlot(found)

\* ftp_data_handler(tcp_conn, data, len, src_ip, src_port)
ftp_data_handler(w, tcp_conn, data, src_ip, src_port) ==
    LET session == ftp_data_session(w, tcp_conn)
    IN  IF session = -1 THEN w
        ELSE
          LET s == w.ftp_sessions[session]
              done(w1, message) ==
                  IF s.ctrl_conn # NULL
                  THEN ftp_send_response(w1, s.ctrl_conn, FTP_CTRL_PORT, s.client_ip,
                                         s.client_port, FTP_RESP_TRANSFER_OK, message, <<>>)
                  ELSE w1
              w2 == IF s.pending_op = FTP_DATA_OP_LIST
                    THEN done(ftp_do_transfer(w, "ftp_do_list", session, tcp_conn,
                                              s.data_port, src_ip, src_port),
                              "Directory send OK.")
                    ELSE IF s.pending_op = FTP_DATA_OP_RETR
                    THEN done(ftp_do_transfer(w, "ftp_do_retr", session, tcp_conn,
                                              s.data_port, src_ip, src_port),
                              "Transfer complete.")
                    ELSE IF s.pending_op = FTP_DATA_OP_STOR /\ Len(data) > 0
                    THEN ftp_do_transfer(w, "ftp_do_stor_receive", session, tcp_conn,
                                         s.data_port, src_ip, src_port)
                    ELSE w
              w3 == tcp_close(w2, s.data_port)
          IN  [w3 EXCEPT !.ftp_sessions[session].data_port = 0,
                         !.ftp_sessions[session].pending_op = FTP_DATA_OP_NONE,
                         !.ftp_sessions[session].state = FTP_STATE_LOGGED_IN]

\* the test of ftp_ctrl_handler before PWD, XPWD, CWD, PASV, LIST, RETR and
\* STOR treating a session that has sent USER as logged in
ftp_not_logged_in_before_user(s) == s.state = FTP_STATE_CONNECTED

\* the test of ftp_ctrl_handler before PWD, XPWD, CWD, PASV, LIST, RETR and
\* STOR
ftp_not_logged_in(s) ==
    s.state # FTP_STATE_LOGGED_IN /\ s.state # FTP_STATE_PASV_WAIT

\* ftp_ctrl_handler(tcp_conn, data, len, src_ip, src_port); fs holds the
\* answers of the file system during the call
ftp_ctrl_handler(w, tcp_conn, data, src_ip, src_port, fs) ==
    LET cmd == ftp_parse(data).cmd
        arg == ftp_parse(data).arg
        got == ftp_get_session(w, src_ip, src_port, 1)
        session == got.session
        w1 == IF session = -1 THEN w
              ELSE [got.w EXCEPT !.ftp_sessions[session].ctrl_conn = tcp_conn]
        refuse == ftp_send_response(w1, tcp_conn, FTP_CTRL_PORT, src_ip, src_port,
                                    FTP_RESP_NOT_LOGGED_IN, "Please login first.", <<>>)
        checked == IF session = -1 THEN FALSE
                   ELSE ftp_not_logged_in(w1.ftp_sessions[session])
    IN  IF session = -1
        THEN ftp_send_response(w, tcp_conn, FTP_CTRL_PORT, src_ip, src_port,
                               FTP_RESP_SERVICE_NA, "Too many connections.", <<>>)
        ELSE IF cmd = <<"U", "S", "E", "R">>
        THEN ftp_cmd_user(w1, session, tcp_conn, arg, FTP_CTRL_PORT, src_ip, src_port)
        ELSE IF cmd = <<"P", "A", "S", "S">>
        THEN ftp_cmd_pass(w1, session, tcp_conn, arg, FTP_CTRL_PORT, src_ip, src_port)
        ELSE IF cmd = <<"S", "Y", "S", "T">>
        THEN ftp_cmd_syst(w1, session, tcp_conn, FTP_CTRL_PORT, src_ip, src_port)
        ELSE IF cmd = <<"P", "W", "D">> \/ cmd = <<"X", "P", "W", "D">>
        THEN IF checked THEN refuse
             ELSE ftp_cmd_pwd(w1, session, tcp_conn, FTP_CTRL_PORT, src_ip, src_port)
        ELSE IF cmd = <<"C", "W", "D">>
        THEN IF checked THEN refuse
             ELSE ftp_cmd_cwd(w1, session, tcp_conn, arg, FTP_CTRL_PORT, src_ip, src_port, fs)
        ELSE IF cmd = <<"T", "Y", "P", "E">>
        THEN ftp_cmd_type(w1, session, tcp_conn, arg, FTP_CTRL_PORT, src_ip, src_port)
        ELSE IF cmd = <<"P", "A", "S", "V">>
        THEN IF checked THEN refuse
             ELSE ftp_cmd_pasv(w1, session, tcp_conn, FTP_CTRL_PORT, src_ip, src_port)
        ELSE IF cmd = <<"L", "I", "S", "T">>
        THEN IF checked THEN refuse
             ELSE ftp_cmd_list(w1, session, tcp_conn, arg, FTP_CTRL_PORT, src_ip, src_port)
        ELSE IF cmd = <<"R", "E", "T", "R">>
        THEN IF checked THEN refuse
             ELSE ftp_cmd_retr(w1, session, tcp_conn, arg, FTP_CTRL_PORT, src_ip, src_port, fs)
        ELSE IF cmd = <<"S", "T", "O", "R">>
        THEN IF checked THEN refuse
             ELSE ftp_cmd_stor(w1, session, tcp_conn, arg, FTP_CTRL_PORT, src_ip, src_port, fs)
        ELSE IF cmd = <<"Q", "U", "I", "T">>
        THEN ftp_cmd_quit(w1, session, tcp_conn, FTP_CTRL_PORT, src_ip, src_port)
        ELSE IF cmd = <<"N", "O", "O", "P">>
        THEN ftp_cmd_noop(w1, session, tcp_conn, FTP_CTRL_PORT, src_ip, src_port)
        ELSE IF cmd = <<"F", "E", "A", "T">>
        THEN ftp_send_response(w1, tcp_conn, FTP_CTRL_PORT, src_ip, src_port, "211",
                               "Features:\r\n PASV\r\n UTF8\r\n211 End", <<>>)
        ELSE IF cmd = <<"O", "P", "T", "S">>
        THEN ftp_send_response(w1, tcp_conn, FTP_CTRL_PORT, src_ip, src_port,
                               FTP_RESP_TYPE_OK, "Option set.", <<>>)
        ELSE ftp_send_response(w1, tcp_conn, FTP_CTRL_PORT, src_ip, src_port,
                               FTP_RESP_CMD_NOT_IMPL, "Command not implemented.", <<>>)

\* main of ftp_server.c up to its loop: the session table is zeroed and the
\* control port is opened
ftp_main(w) ==
    tcp_open([w EXCEPT !.ftp_sessions = [i \in FtpSlots |-> ZeroSession]],
             FTP_CTRL_PORT, "ftp_ctrl_handler")

----------------------------------------------------------------------------
(* The state machine *)

\* the state net_init leaves: empty tables, and the gratuitous ARP request
\* of arp_init in the driver
InitWorld ==
    arp_req([net_if_ip |-> NET_IF_IP, net_if_mac |-> NET_IF_MAC,
             net_if_ipv6 |-> NET_IF_IPV6, now |-> 0,
             icmp_ping_id |-> 0,
             ping_app |-> [ping_sent_count |-> 0, last_ping_time |-> 0, pc |-> "main"],
             ping_hist |-> [sent_at |-> <<>>, polled |-> FALSE],
             arp_table |-> map_init(ARP_TIMEOUT_SEC),
             arp_buf |-> map_init(ARP_MIN_INTERVAL),
             udp_table |-> map_init(0),
             ip_id_frag |-> 0, ip_id_plain |-> 0,
             icmp_ping_requests |-> map_init(ICMP_PING_TIMEOUT),
             icmp_stats |-> [sent |-> 0, received |-> 0, min_time |-> 0,
                             max_time |-> 0, total_time |-> 0],
             ftp_sessions |-> [i \in FtpSlots |-> ZeroSession],
             next_data_port |-> FTP_DATA_PORT_BASE,
             tcp_table |-> NoEntries,
             out |-> <<>>, calls |-> <<>>, requested |-> NoEntries, txbuf |-> <<>>],
            NET_IF_IP)

Init ==
    /\ now = InitWorld.now
    /\ arp_table = InitWorld.arp_table
    /\ arp_buf = InitWorld.arp_buf
    /\ udp_table = InitWorld.udp_table
    /\ ip_id_frag = InitWorld.ip_id_frag
    /\ ip_id_plain = InitWorld.ip_id_plain
    /\ icmp_ping_requests = InitWorld.icmp_ping_requests
    /\ icmp_stats = InitWorld.icmp_stats
    /\ out = InitWorld.out
    /\ calls = InitWorld.calls
    /\ op = [name |-> "net_init"]
    /\ pre = [InitWorld EXCEPT !.out = <<>>]
    /\ requested = InitWorld.requested
    /\ udp_last = NoEntries
    /\ txbuf = <<>>     \* the bytes arp_init left in txbuf are dead (see Commit)
    /\ arp_last = NoEntries
    /\ net_if_mac = InitWorld.net_if_mac
    /\ net_if_ipv6 = InitWorld.net_if_ipv6
    /\ icmp_ping_id = InitWorld.icmp_ping_id
    /\ ping_app = InitWorld.ping_app
    /\ ping_hist = InitWorld.ping_hist
    /\ ftp_sessions = InitWorld.ftp_sessions
    /\ next_data_port = InitWorld.next_data_port
    /\ tcp_table = InitWorld.tcp_table

\* the history of outstanding requests after the calls cs (from number i on)
RECURSIVE NoteRequests(_, _, _)
NoteRequests(r, cs, i) ==
    IF i > Len(cs) THEN r
    ELSE IF cs[i].fn = "arp_out" /\ cs[i].branch = "request"
         THEN NoteRequests([x \in (DOMAIN r) \cup {cs[i].ip} |->
                               IF x = cs[i].ip THEN cs[i].buf ELSE r[x]], cs, i + 1)
         ELSE NoteRequests(r, cs, i + 1)

\* a well-formed ARP packet from an address answers the request for it
Answered(r, o) ==
    IF o.name = "arp_in" /\ arp_well_formed(o.buf)
    THEN [x \in (DOMAIN r) \ {arp_sender_ip(o.buf)} |-> r[x]]
    ELSE r

\* the last operation on each UDP port
LastOnPort(u, o) ==
    IF o.name = "udp_open"
    THEN [x \in (DOMAIN u) \cup {o.port} |-> IF x = o.port THEN o.handler ELSE u[x]]
    ELSE IF o.name = "udp_close"
    THEN [x \in (DOMAIN u) \cup {o.port} |-> IF x = o.port THEN "closed" ELSE u[x]]
    ELSE u

\* the sender of the most recent well-formed ARP packet from each address
LastSender(a, o) ==
    IF o.name = "arp_in" /\ arp_well_formed(o.buf)
    THEN [x \in (DOMAIN a) \cup {arp_sender_ip(o.buf)} |->
             IF x = arp_sender_ip(o.buf) THEN arp_sender_mac(o.buf) ELSE a[x]]
    ELSE a

\* the operation o took the stack from World to w; the bytes it left in txbuf
\* stay there
CommitTx(w, o) ==
    /\ now' = w.now
    /\ arp_table' = w.arp_table
    /\ arp_buf' = w.arp_buf
    /\ udp_table' = w.udp_table
    /\ ip_id_frag' = w.ip_id_frag
    /\ ip_id_plain' = w.ip_id_plain
    /\ icmp_ping_requests' = w.icmp_ping_requests
    /\ icmp_stats' = w.icmp_stats
    /\ out' = w.out
    /\ calls' = w.calls
    /\ op' = o
    /\ pre' = World
    /\ requested' = NoteRequests(Answered(requested, o), w.calls, 1)
    /\ udp_last' = LastOnPort(udp_last, o)
    /\ txbuf' = w.txbuf
    /\ arp_last' = LastSender(arp_last, o)
    /\ net_if_mac' = w.net_if_mac
    /\ net_if_ipv6' = w.net_if_ipv6
    /\ icmp_ping_id' = w.icmp_ping_id
    /\ ping_app' = w.ping_app
    /\ ping_hist' = w.ping_hist
    /\ ftp_sessions' = w.ftp_sessions
    /\ next_data_port' = w.next_data_port
    /\ tcp_table' = w.tcp_table

\* the same, forgetting the bytes of txbuf.  They are dead when an operation
\* returns: every function that sends from txbuf begins with buf_init(&txbuf, n)
\* and writes all n bytes (arp.c:60, arp.c:79, icmp.c:22, icmp.c:138,
\* udp.c:132).  The specifications that do not look at txbuf between operations
\* use Commit; SpecTxbuf keeps the bytes with CommitTx.
Commit(w, o) == CommitTx([w EXCEPT !.txbuf = <<>>], o)

\* one second passes
Tick ==
    /\ now < MaxTime
    /\ Commit([World EXCEPT !.now = @ + 1], [name |-> "tick"])

----------------------------------------------------------------------------
(* The peers on the link and what they send *)

PeerA == <<192, 168, 163, 2>>
PeerB == <<192, 168, 163, 10>>
Peers == {PeerA, PeerB}
MacA == <<170, 187, 204, 221, 238, 255>>
MacA2 == <<2, 0, 0, 0, 0, 9>>
MacB == <<2, 0, 0, 0, 0, 16>>
NoMac == <<0, 0, 0, 0, 0, 0>>
PeerMacs == {<<PeerA, MacA>>, <<PeerA, MacA2>>, <<PeerB, MacB>>}

\* well-formed ARP packets: requests and replies, for us and for another host,
\* bare or padded to the minimum Ethernet payload
ArpGood ==
    {arp_pkt(ARP_HW_ETHER, NET_PROTOCOL_IP, NET_MAC_LEN, NET_IP_LEN, pm[3], pm[1][2],
             pm[1][1], NoMac, pm[2]) \o pm[4] :
        pm \in (PeerMacs \X {NET_IF_IP, PeerB} \X {ARP_REQUEST, ARP_REPLY} \X {<<>>})
               \cup {<<<<PeerB, MacB>>, NET_IF_IP, ARP_REQUEST, <<0, 0, 0, 0>>>>}}

\* malformed ARP packets from PeerA: one field wrong each, or truncated
ArpBad ==
    { arp_pkt(6, NET_PROTOCOL_IP, NET_MAC_LEN, NET_IP_LEN, ARP_REPLY, MacA, PeerA,
              NET_IF_MAC, NET_IF_IP),
      arp_pkt(ARP_HW_ETHER, 34525, NET_MAC_LEN, NET_IP_LEN, ARP_REPLY, MacA, PeerA,
              NET_IF_MAC, NET_IF_IP),
      arp_pkt(ARP_HW_ETHER, NET_PROTOCOL_IP, 8, NET_IP_LEN, ARP_REPLY, MacA, PeerA,
              NET_IF_MAC, NET_IF_IP),
      arp_pkt(ARP_HW_ETHER, NET_PROTOCOL_IP, NET_MAC_LEN, 16, ARP_REPLY, MacA, PeerA,
              NET_IF_MAC, NET_IF_IP),
      Take(arp_pkt(ARP_HW_ETHER, NET_PROTOCOL_IP, NET_MAC_LEN, NET_IP_LEN, ARP_REPLY,
                   MacA, PeerA, NET_IF_MAC, NET_IF_IP), ARP_PKT_LEN - 1) }

\* IPv4 packets the IP layer hands to arp_out
OutBufs ==
    {ip_header(InitWorld, d, ip, NET_PROTOCOL_UDP, 0, 0, 0) \o d :
        d \in {<<1, 2, 3>>, <<9>>}, ip \in Peers}

----------------------------------------------------------------------------
(* ARP operations *)

\* the poll loop hands one ARP packet out of S to arp_in
ArpInFrom(S) ==
    \E b \in S :
        Commit(arp_in(World, b), [name |-> "arp_in", buf |-> b])

ArpIn == ArpInFrom(ArpGood \cup ArpBad)

ArpOut ==
    \E buf \in OutBufs :
        Commit(arp_out(World, buf, ip_dst_of(buf)),
               [name |-> "arp_out", buf |-> buf, ip |-> ip_dst_of(buf)])

NextArp == Tick \/ ArpIn \/ ArpOut

SpecArp == Init /\ [][NextArp]_vars

----------------------------------------------------------------------------
(* Claims about ARP, checked under SpecArp *)

\* exactly one frame left: the broadcast ARP REQUEST for ip
OnlyRequestFor(ip) ==
    /\ Len(out) = 1
    /\ out[1].type = NET_PROTOCOL_ARP
    /\ out[1].dst = ether_broadcast_mac
    /\ arp_well_formed(out[1].data)
    /\ arp_opcode(out[1].data) = ARP_REQUEST
    /\ arp_target_ip(out[1].data) = ip
    /\ arp_sender_ip(out[1].data) = NET_IF_IP

\* the first arp_out for an unresolved address sends exactly one REQUEST and
\* no IPv4 frame
C1_First ==
    (op.name = "arp_out"
       /\ ~map_live(pre.arp_table, pre.now, op.ip)
       /\ ~map_live(pre.arp_buf, pre.now, op.ip))
    => OnlyRequestFor(op.ip)

C2_Theorem ==
    (op.name = "arp_in" /\ arp_well_formed(op.buf)
       /\ map_live(pre.arp_buf, pre.now, arp_sender_ip(op.buf)))
    => /\ out = <<[dst |-> arp_sender_mac(op.buf), src |-> NET_IF_MAC,
                   type |-> NET_PROTOCOL_IP,
                   data |-> map_get(pre.arp_buf, pre.now, arp_sender_ip(op.buf))]>>
       /\ out[1].data = pre.requested[arp_sender_ip(op.buf)]
       /\ arp_sender_ip(op.buf) \notin DOMAIN arp_buf.entries

\* a REQUEST from a peer flushed the buffer deferred for that peer, after a
\* second buffer for the same peer had been dropped
C2_Witness ==
    /\ op.name = "arp_in" /\ arp_well_formed(op.buf)
    /\ arp_opcode(op.buf) = ARP_REQUEST
    /\ map_live(pre.arp_buf, pre.now, arp_sender_ip(op.buf))
    /\ Len(out) = 1 /\ out[1].type = NET_PROTOCOL_IP
    /\ out[1].dst = MacA2

\* a pending entry that is in the queue but older than ARP_MIN_INTERVAL
ExpiredPending(w, ip) ==
    /\ ip \in DOMAIN w.arp_buf.entries
    /\ ~map_live(w.arp_buf, w.now, ip)

ArpRequestsOut == {i \in 1..Len(out) : /\ out[i].type = NET_PROTOCOL_ARP
                                       /\ arp_opcode(out[i].data) = ARP_REQUEST}

Ipv4FramesOut == {i \in 1..Len(out) : out[i].type = NET_PROTOCOL_IP}

C19_Theorem ==
    (op.name = "arp_out" /\ map_live(pre.arp_table, pre.now, op.ip))
    => /\ out = <<[dst |-> map_get(pre.arp_table, pre.now, op.ip), src |-> NET_IF_MAC,
                   type |-> NET_PROTOCOL_IP, data |-> op.buf]>>
       /\ arp_table = pre.arp_table
       /\ arp_buf = pre.arp_buf

\* a send through an entry learned earlier than the current second
C19_Witness ==
    /\ op.name = "arp_out"
    /\ map_live(pre.arp_table, pre.now, op.ip)
    /\ pre.arp_table.entries[op.ip].ts < pre.now
    /\ Len(out) = 1 /\ out[1].data = op.buf
    /\ arp_table.entries[op.ip].ts < now

\* C20: every well-formed ARP packet, of any opcode and any target, sets
\* table[sender_ip] = sender_mac stamped with the current time, overwriting an
\* earlier MAC; so the live table entry of an address always holds the
\* sender_mac of the most recent well-formed ARP packet received from it.
C20_Theorem ==
    /\ (op.name = "arp_in" /\ arp_well_formed(op.buf))
       => /\ map_live(arp_table, now, arp_sender_ip(op.buf))
          /\ arp_table.entries[arp_sender_ip(op.buf)]
               = [value |-> arp_sender_mac(op.buf), ts |-> now]
    /\ \A ip \in DOMAIN arp_table.entries :
          map_live(arp_table, now, ip)
          => (ip \in DOMAIN arp_last /\ map_get(arp_table, now, ip) = arp_last[ip])

\* a REPLY addressed to another host replaced the live MAC of its sender
C20_Witness ==
    /\ op.name = "arp_in" /\ arp_well_formed(op.buf)
    /\ arp_opcode(op.buf) = ARP_REPLY
    /\ arp_target_ip(op.buf) # NET_IF_IP
    /\ map_live(pre.arp_table, pre.now, arp_sender_ip(op.buf))
    /\ map_get(pre.arp_table, pre.now, arp_sender_ip(op.buf)) # arp_sender_mac(op.buf)
    /\ map_get(arp_table, now, arp_sender_ip(op.buf)) = arp_sender_mac(op.buf)

ArpRepliesOut == {i \in 1..Len(out) : /\ out[i].type = NET_PROTOCOL_ARP
                                      /\ arp_opcode(out[i].data) = ARP_REPLY}

\* the received packet is a well-formed REQUEST for our address
RequestForUs ==
    /\ op.name = "arp_in" /\ arp_well_formed(op.buf)
    /\ arp_opcode(op.buf) = ARP_REQUEST
    /\ arp_target_ip(op.buf) = NET_IF_IP

\* C21: arp_in emits an ARP REPLY exactly when the packet is well-formed,
\* there is no live pending entry for sender_ip, opcode = REQUEST and
\* target_ip = our IP (and nothing else emits one); the reply is the only
\* frame, unicast to the requester's MAC with opcode REPLY, sender = our MAC
\* and IP, target = the requester's IP and MAC.  A REQUEST for our IP that
\* arrives while a pending entry exists for its sender flushes the pending
\* buffer and gets no REPLY.
C21_Theorem ==
    /\ ArpRepliesOut # {}
       <=> (RequestForUs /\ ~map_live(pre.arp_buf, pre.now, arp_sender_ip(op.buf)))
    /\ ArpRepliesOut # {}
       => out = <<[dst |-> arp_sender_mac(op.buf), src |-> NET_IF_MAC,
                   type |-> NET_PROTOCOL_ARP,
                   data |-> arp_pkt(ARP_HW_ETHER, NET_PROTOCOL_IP, NET_MAC_LEN,
                                    NET_IP_LEN, ARP_REPLY, NET_IF_MAC, NET_IF_IP,
                                    arp_sender_mac(op.buf), arp_sender_ip(op.buf))]>>
    /\ (RequestForUs /\ map_live(pre.arp_buf, pre.now, arp_sender_ip(op.buf)))
       => /\ Len(out) = 1 /\ out[1].type = NET_PROTOCOL_IP
          /\ out[1].data = map_get(pre.arp_buf, pre.now, arp_sender_ip(op.buf))
          /\ ~map_live(arp_buf, now, arp_sender_ip(op.buf))

\* a padded REQUEST for our address was answered with a REPLY while a buffer
\* was pending for another peer
C21_Witness ==
    /\ RequestForUs
    /\ Len(op.buf) > ARP_PKT_LEN
    /\ ~map_live(pre.arp_buf, pre.now, arp_sender_ip(op.buf))
    /\ \E ip \in DOMAIN pre.arp_buf.entries : ip # arp_sender_ip(op.buf)
    /\ ArpRepliesOut = {1}
    /\ out[1].dst = MacB

\* C22: an ARP packet shorter than 28 bytes, or with hw_type # Ethernet,
\* proto_type # IPv4, hw_len # 6 or proto_len # 4, is dropped silently: the
\* ARP table and the pending queue are unchanged and no frame is emitted, even
\* if a pending entry exists for the packet's sender_ip.
C22_Theorem ==
    (op.name = "arp_in" /\ ~arp_well_formed(op.buf))
    => /\ arp_table = pre.arp_table
       /\ arp_buf = pre.arp_buf
       /\ out = <<>>
       /\ calls = <<>>

\* a packet of full length with one wrong field arrived from a peer with a
\* live pending buffer, and the buffer stayed
C22_Witness ==
    /\ op.name = "arp_in" /\ ~arp_well_formed(op.buf)
    /\ Len(op.buf) = ARP_PKT_LEN
    /\ map_live(pre.arp_buf, pre.now, arp_sender_ip(op.buf))
    /\ map_live(arp_buf, now, arp_sender_ip(op.buf))
    /\ out = <<>>

----------------------------------------------------------------------------
(* IPv4 packets the peers send *)

\* an IPv4 packet as a peer builds it: header fields, options, a correct
\* header checksum, then the payload
peer_ip_pkt(version, ihl, total_len, protocol, src, dst, options, payload) ==
    LET h0 == <<version * 16 + ihl, 0, (total_len \div 256) % 256, total_len % 256,
                0, 7, 0, 0, 64, protocol, 0, 0>> \o src \o dst \o options
    IN  Patch(h0, 10, store16(checksum16(h0, Len(h0) \div 2))) \o payload

\* the packet with a correct total length, with or without one option word
peer_ip(protocol, src, dst, options, payload) ==
    peer_ip_pkt(IP_VERSION_4, 5 + Len(options) \div 4,
                IP_HDR_LEN + Len(options) + Len(payload),
                protocol, src, dst, options, payload)

\* an ICMP message as a peer builds it, with the Internet checksum
peer_icmp(type, code, id, seq, data) ==
    LET m0 == <<type, code, 0, 0, id \div 256, id % 256, seq \div 256, seq % 256>> \o data
        padded == m0 \o (IF Len(m0) % 2 = 1 THEN <<0>> ELSE <<>>)
    IN  Patch(m0, 2, store16(checksum16(padded, Len(padded) \div 2)))

\* a UDP datagram as a peer builds it, with the pseudo-header checksum
peer_udp(src, dst, src_port, dst_port, data) ==
    LET len == UDP_HDR_LEN + Len(data)
        d0 == <<src_port \div 256, src_port % 256, dst_port \div 256, dst_port % 256,
                len \div 256, len % 256, 0, 0>> \o data
    IN  Patch(d0, 6, store16(transport_checksum(NET_PROTOCOL_UDP, d0, src, dst)))

\* protocol numbers a peer uses that have no handler in the registry
UnregisteredProtocols == {47}

\* the ports of the exchanges: the peer's own port, a port the application
\* opens and closes, and a second one
TestPorts == <<1000, 53, 9999>>
PeerPort == TestPorts[1]
PortOpen == TestPorts[2]
PortOther == TestPorts[3]

EchoRequests ==
    { peer_icmp(ICMP_TYPE_ECHO_REQUEST, 0, 4660, 7, <<97, 98, 99, 100, 101, 102, 103, 104>>),
      peer_icmp(ICMP_TYPE_ECHO_REQUEST, 0, 1, 1, <<>>),
      peer_icmp(ICMP_TYPE_ECHO_REQUEST, 5, 258, 772, <<200>>),
      peer_icmp(ICMP_TYPE_ECHO_REQUEST, 0, 65535, 65535, <<255, 255, 255>>),
      \* a request whose checksum field is wrong: icmp_in does not verify it
      Patch(peer_icmp(ICMP_TYPE_ECHO_REQUEST, 0, 2, 3, <<1, 2, 3, 4, 5>>), 2, <<0, 0>>) }

OtherIcmp ==
    { peer_icmp(ICMP_TYPE_ECHO_REPLY, 0, 0, 0, <<0, 1, 2>>),
      peer_icmp(ICMP_TYPE_UNREACH, 3, 0, 0, <<69, 0, 0, 20>>),
      <<ICMP_TYPE_ECHO_REQUEST, 0, 247, 255>> }

RawPayloads == { <<>>, <<1, 2, 3>>, <<1, 2, 3, 4, 5, 6, 7, 8>>,
                 <<11, 12, 13, 14, 15, 16, 17, 18, 19, 20, 21>> }

UdpData == { <<>>, <<104, 105>>, <<1, 2, 3, 4, 5>> }

\* the payloads a peer src sends us, each with its protocol number
PeerPayloads(src) ==
    ({NET_PROTOCOL_ICMP} \X (EchoRequests \cup OtherIcmp))
    \cup ({NET_PROTOCOL_TCP} \X {<<0, 80, 0, 21, 0, 0, 0, 1>>})
    \cup (UnregisteredProtocols \X RawPayloads)
    \cup ({NET_PROTOCOL_UDP} \X
            {peer_udp(src, NET_IF_IP, PeerPort, dp, d) : dp \in {PortOpen, PortOther},
                                                         d \in UdpData})

\* a header without options and no padding, or one option word and the
\* padding of a short Ethernet frame
Framings == { <<<<>>, <<>>>>, <<<<1, 1, 1, 0>>, <<0, 0, 0>>>>, <<<<>>, <<0, 0>>>> }

\* packets that pass every check of ip_in
IpGoodFrom(src, payloads) ==
    {peer_ip(pp[1], src, NET_IF_IP, f[1], pp[2]) \o f[2] :
        pp \in payloads, f \in Framings}

\* packets that fail one check each: a header checksum that is off by one, a
\* foreign destination, version 6, a header length below 5, a total length
\* beyond the buffer or below the header, a truncated header
IpBadFrom(src, payloads) ==
    UNION {
      LET good == peer_ip(pp[1], src, NET_IF_IP, <<>>, pp[2])
          n == IP_HDR_LEN + Len(pp[2])
      IN  { Patch(good, 10, <<(good[11] + 1) % 256>>),
            peer_ip(pp[1], src, PeerB, <<>>, pp[2]),
            peer_ip_pkt(6, 5, n, pp[1], src, NET_IF_IP, <<>>, pp[2]),
            peer_ip_pkt(IP_VERSION_4, 4, n, pp[1], src, NET_IF_IP, <<>>, pp[2]),
            peer_ip_pkt(IP_VERSION_4, 5, n + 1, pp[1], src, NET_IF_IP, <<>>, pp[2]),
            peer_ip_pkt(IP_VERSION_4, 5, IP_HDR_LEN - 1, pp[1], src, NET_IF_IP, <<>>, pp[2]),
            Take(good, IP_HDR_LEN - 1) }
      : pp \in payloads }

\* the poll loop hands one IPv4 packet out of S to ip_in
IpInFrom(S) ==
    /\ ip_id_plain < MaxId
    /\ ip_id_frag < MaxId
    /\ \E b \in S :
          Commit(ip_in(World, b), [name |-> "ip_in", buf |-> b])

IpInputs ==
    IpGoodFrom(PeerA, PeerPayloads(PeerA))
    \cup IpBadFrom(PeerA, {pp \in PeerPayloads(PeerA) :
                              pp[2] \in {<<1, 2, 3>>,
                                         peer_icmp(ICMP_TYPE_ECHO_REQUEST, 0, 1, 1, <<>>)}})

IpIn == IpInFrom(IpInputs)

\* PeerA announces its address
ArpLearn == ArpInFrom({arp_pkt(ARP_HW_ETHER, NET_PROTOCOL_IP, NET_MAC_LEN, NET_IP_LEN,
                               ARP_REPLY, MacA, PeerA, NET_IF_MAC, NET_IF_IP)})

NextIpIn == ArpLearn \/ IpIn

SpecIpIn == Init /\ [][NextIpIn]_vars

----------------------------------------------------------------------------
(* Claims about the IPv4 receive path and ICMPv4, checked under SpecIpIn *)

HandlerCalls == SelectSeq(calls, LAMBDA c : c.fn = "net_handler")
IpOutCalls == SelectSeq(calls, LAMBDA c : c.fn = "ip_out")
UdpHandlerCalls == SelectSeq(calls, LAMBDA c : c.fn = "udp_handler")

\* the header fields of a received packet, read from the wire bytes
WireIhl(b) == (b[1] % 16) * 4
WireTotalLen(b) == b[3] * 256 + b[4]
WireSrc(b) == <<b[13], b[14], b[15], b[16]>>
WireDst(b) == <<b[17], b[18], b[19], b[20]>>
WirePayload(b) == SubSeq(b, WireIhl(b) + 1, WireTotalLen(b))

\* the header can be read: 20 bytes at least, and the whole header is there
Parsable(b) == Len(b) >= 20 /\ WireIhl(b) >= 20 /\ WireIhl(b) <= Len(b)

\* the header checksum equals the one recomputed with the field zeroed
HeaderChecksumOK(b) ==
    load16(b, 10) = checksum16(Patch(b, 10, <<0, 0>>), WireIhl(b) \div 2)

\* version 4, consistent lengths, a valid header checksum, addressed to us
ValidForUs(b) ==
    /\ Parsable(b)
    /\ b[1] \div 16 = 4
    /\ WireTotalLen(b) <= Len(b)
    /\ WireTotalLen(b) >= WireIhl(b)
    /\ HeaderChecksumOK(b)
    /\ WireDst(b) = NET_IF_IP

\* C3: for every inbound IPv4 packet with version 4, consistent lengths, a
\* valid header checksum and dst = our IP, the handler registered for its
\* protocol number is invoked exactly once, with the header removed and the
\* padding trimmed to total_len; a packet with an invalid header checksum or a
\* destination other than our IP invokes no handler and emits nothing.
C3_Theorem ==
    op.name = "ip_in" =>
      /\ (ValidForUs(op.buf) /\ net_registered(op.buf[10]))
         => HandlerCalls = <<[fn |-> "net_handler", protocol |-> op.buf[10],
                              data |-> WirePayload(op.buf), src |-> WireSrc(op.buf)]>>
      /\ (Parsable(op.buf) /\ (~HeaderChecksumOK(op.buf) \/ WireDst(op.buf) # NET_IF_IP))
         => (calls = <<>> /\ out = <<>> /\ World = pre)

\* a padded packet with an option word reached the UDP handler
C3_Witness ==
    /\ op.name = "ip_in" /\ ValidForUs(op.buf)
    /\ WireIhl(op.buf) = 24 /\ Len(op.buf) > WireTotalLen(op.buf)
    /\ op.buf[10] = NET_PROTOCOL_UDP
    /\ Len(HandlerCalls) = 1

Min(a, b) == IF a < b THEN a ELSE b

\* C9: when ip_in accepts a packet whose protocol has no registered handler,
\* exactly one ICMP destination-unreachable (type 3, code 2) is sent to the
\* packet's source, quoting the original IP header and the first 8 bytes of
\* its payload (the whole payload when it is shorter).
C9_Theorem ==
    (op.name = "ip_in" /\ ValidForUs(op.buf) /\ ~net_registered(op.buf[10]))
    => /\ HandlerCalls = <<>>
       /\ Len(IpOutCalls) = 1
       /\ IpOutCalls[1].ip = WireSrc(op.buf)
       /\ IpOutCalls[1].protocol = NET_PROTOCOL_ICMP
       /\ Take(IpOutCalls[1].buf, 2) = <<ICMP_TYPE_UNREACH, ICMP_CODE_PROTOCOL_UNREACH>>
       /\ Drop(IpOutCalls[1].buf, ICMP_HDR_LEN)
            = Take(op.buf, WireIhl(op.buf) + Min(8, Len(WirePayload(op.buf))))

\* a packet with an option word and a 3-byte payload of an unknown protocol
\* was answered
C9_Witness ==
    /\ op.name = "ip_in" /\ ValidForUs(op.buf) /\ ~net_registered(op.buf[10])
    /\ WireIhl(op.buf) = 24 /\ Len(WirePayload(op.buf)) = 3
    /\ Len(IpOutCalls) = 1
    /\ Len(IpOutCalls[1].buf) = ICMP_HDR_LEN + 27

\* the Internet checksum as a receiver verifies it: the big-endian 16-bit
\* words of the message, an odd last byte padded with a zero byte after it,
\* add up (end-around carry) to 0xFFFF
RECURSIVE WireSum(_, _)
WireSum(m, i) ==
    IF i > Len(m) THEN 0
    ELSE m[i] * 256 + (IF i + 1 <= Len(m) THEN m[i + 1] ELSE 0) + WireSum(m, i + 2)

WireChecksumOK(m) == FoldCarry(WireSum(m, 1)) = 65535

\* C6: for every ICMPv4 ECHO_REQUEST of length >= 8 received (even or odd
\* length), exactly one ECHO_REPLY (type 0) is sent to the requester via ip_out
\* with the same code, id and seq, the same payload, and a checksum that
\* verifies across the whole reply.
C6_Theorem ==
    (op.name = "ip_in" /\ ValidForUs(op.buf) /\ op.buf[10] = NET_PROTOCOL_ICMP
       /\ Len(WirePayload(op.buf)) >= 8
       /\ WirePayload(op.buf)[1] = ICMP_TYPE_ECHO_REQUEST)
    => /\ Len(IpOutCalls) = 1
       /\ IpOutCalls[1].ip = WireSrc(op.buf)
       /\ IpOutCalls[1].protocol = NET_PROTOCOL_ICMP
       /\ Len(IpOutCalls[1].buf) = Len(WirePayload(op.buf))
       /\ IpOutCalls[1].buf[1] = ICMP_TYPE_ECHO_REPLY
       /\ IpOutCalls[1].buf[2] = WirePayload(op.buf)[2]
       /\ Drop(IpOutCalls[1].buf, 4) = Drop(WirePayload(op.buf), 4)
       /\ WireChecksumOK(IpOutCalls[1].buf)

\* an echo request of odd length was answered and the reply left for the
\* requester's MAC
C6_Witness ==
    /\ op.name = "ip_in" /\ ValidForUs(op.buf) /\ op.buf[10] = NET_PROTOCOL_ICMP
    /\ Len(WirePayload(op.buf)) >= 8
    /\ WirePayload(op.buf)[1] = ICMP_TYPE_ECHO_REQUEST
    /\ Len(WirePayload(op.buf)) % 2 = 1
    /\ Len(IpOutCalls) = 1
    /\ Len(out) = 1 /\ out[1].dst = MacA /\ out[1].type = NET_PROTOCOL_IP

----------------------------------------------------------------------------
(* UDP operations *)

Handlers == {"h1", "h2"}

UdpOpen ==
    \E p \in {PortOpen, PortOther}, h \in Handlers :
        Commit(udp_open(World, p, h), [name |-> "udp_open", port |-> p, handler |-> h])

UdpClose ==
    \E p \in {PortOpen, PortOther} :
        Commit(udp_close(World, p), [name |-> "udp_close", port |-> p])

\* datagrams from PeerA to both ports, and some that udp_in must refuse: a
\* checksum that is off by one, a length field beyond the datagram, a
\* truncated header
UdpInputs ==
    IpGoodFrom(PeerA, {pp \in PeerPayloads(PeerA) : pp[1] = NET_PROTOCOL_UDP})
    \cup { peer_ip(NET_PROTOCOL_UDP, PeerA, NET_IF_IP, <<>>, d) :
             d \in { Patch(peer_udp(PeerA, NET_IF_IP, PeerPort, PortOpen, <<1, 2>>), 6, <<3>>),
                     Patch(peer_udp(PeerA, NET_IF_IP, PeerPort, PortOther, <<1, 2>>), 7, <<4>>),
                     Patch(peer_udp(PeerA, NET_IF_IP, PeerPort, PortOpen, <<>>), 5, <<9>>),
                     <<3, 232, 0, 53, 0, 7, 0>> } }

UdpIn == IpInFrom(UdpInputs)

NextUdpIn == UdpOpen \/ UdpClose \/ UdpIn

SpecUdpIn == Init /\ [][NextUdpIn]_vars

\* a payload of n bytes
Pattern(n, seed) == [i \in 1..n |-> (i + seed) % 251]

PortPairs == { <<PeerPort, PortOpen>>, <<65535, 1>>, <<0, 258>> }

\* what applications send: payload, ports, destination; the longest payload
\* needs two IP fragments
Sends ==
    ((UdpData \cup {<<255>>}) \X PortPairs \X Peers)
    \cup { <<Pattern(IP_MTU - IP_HDR_LEN - UDP_HDR_LEN + 1, 3), <<PeerPort, PortOpen>>, PeerA>> }

UdpSend ==
    /\ ip_id_plain < MaxId
    /\ ip_id_frag < MaxId
    /\ \E s \in Sends :
          Commit(udp_send(World, s[1], s[2][1], s[3], s[2][2]),
                 [name |-> "udp_send", data |-> s[1], src_port |-> s[2][1],
                  dst_ip |-> s[3], dst_port |-> s[2][2]])

NextUdpOut == UdpSend \/ ArpLearn

SpecUdpOut == Init /\ [][NextUdpOut]_vars

----------------------------------------------------------------------------
(* Claims about UDP *)

\* the datagram m from src verifies at the receiver dst: the big-endian words
\* of the pseudo-header and of the datagram add up to 0xFFFF
UdpChecksumOK(m, src, dst) ==
    WireChecksumOK(src \o dst \o <<0, NET_PROTOCOL_UDP, (Len(m) \div 256) % 256,
                                   Len(m) % 256>> \o m)

\* the last operation on port p was udp_open
OpenOn(p) == p \in DOMAIN udp_last /\ udp_last[p] # "closed"

\* ip_in has accepted a datagram that passes the checks of udp_in
UdpDelivered ==
    /\ op.name = "ip_in" /\ ValidForUs(op.buf) /\ op.buf[10] = NET_PROTOCOL_UDP
    /\ Len(WirePayload(op.buf)) >= 8
    /\ WirePayload(op.buf)[5] * 256 + WirePayload(op.buf)[6] <= Len(WirePayload(op.buf))
    /\ UdpChecksumOK(WirePayload(op.buf), WireSrc(op.buf), NET_IF_IP)

WireDstPort(b) == WirePayload(b)[3] * 256 + WirePayload(b)[4]
WireSrcPort(b) == WirePayload(b)[1] * 256 + WirePayload(b)[2]

\* C10: after any sequence of udp_open and udp_close calls, a checksum-valid
\* datagram to port p invokes a handler exactly when the last operation on p
\* was udp_open(p, h), and then it invokes h exactly once with the payload
\* without the 8-byte UDP header, its length, the source IP and the source
\* port; after udp_close(p), or if p was never opened, no handler is invoked.
C10_Theorem ==
    UdpDelivered =>
      IF OpenOn(WireDstPort(op.buf))
      THEN UdpHandlerCalls =
             <<[fn |-> "udp_handler", handler |-> udp_last[WireDstPort(op.buf)],
                data |-> Drop(WirePayload(op.buf), 8),
                len |-> Len(WirePayload(op.buf)) - 8,
                src_ip |-> WireSrc(op.buf),
                src_port |-> WireSrcPort(op.buf)]>>
      ELSE UdpHandlerCalls = <<>>

\* a datagram reached h2 on a port that had been opened with h1, closed and
\* opened again with h2
C10_Witness ==
    /\ UdpDelivered
    /\ Len(UdpHandlerCalls) = 1
    /\ UdpHandlerCalls[1].handler = "h2"
    /\ UdpHandlerCalls[1].data = <<1, 2, 3, 4, 5>>
    /\ pre.udp_table.entries[WireDstPort(op.buf)].value = "h2"

\* C8: when udp_in receives a checksum-valid datagram whose destination port
\* has no registered handler, no handler is invoked and exactly one ICMP
\* message with type 3, code 3 is sent to the datagram's source, whose payload
\* is the original IP header followed by the first 8 bytes of the original IP
\* payload exactly as they were received.
C8_Claim ==
    (UdpDelivered /\ ~map_live(pre.udp_table, pre.now, WireDstPort(op.buf)))
    => /\ UdpHandlerCalls = <<>>
       /\ Len(IpOutCalls) = 1
       /\ IpOutCalls[1].ip = WireSrc(op.buf)
       /\ IpOutCalls[1].protocol = NET_PROTOCOL_ICMP
       /\ Take(IpOutCalls[1].buf, 2) = <<ICMP_TYPE_UNREACH, ICMP_CODE_PORT_UNREACH>>
       /\ Drop(IpOutCalls[1].buf, ICMP_HDR_LEN)
            = Take(op.buf, WireIhl(op.buf)) \o Take(WirePayload(op.buf), 8)

\* the stack of the host with address ip, with handler h on port p
Receiver(ip, p, h) ==
    udp_open([InitWorld EXCEPT !.net_if_ip = ip, !.out = <<>>], p, h)

\* C7: every datagram built by udp_out is accepted by the verification udp_in
\* performs at the receiver whose address is dst_ip, for every payload and
\* every port pair; the receiver's handler gets the payload and the source
\* port that were sent.
C7_Theorem ==
    op.name = "udp_send" =>
      /\ Len(IpOutCalls) = 1
      /\ IpOutCalls[1].ip = op.dst_ip
      /\ IpOutCalls[1].protocol = NET_PROTOCOL_UDP
      /\ udp_in_accepts(Receiver(op.dst_ip, op.dst_port, "h1"), IpOutCalls[1].buf,
                        NET_IF_IP)
      /\ udp_in(Receiver(op.dst_ip, op.dst_port, "h1"),
                [pre |-> <<>>, data |-> IpOutCalls[1].buf], NET_IF_IP).calls
           = <<[fn |-> "udp_handler", handler |-> "h1", data |-> op.data,
                len |-> Len(op.data), src_ip |-> NET_IF_IP,
                src_port |-> op.src_port]>>

\* a datagram with an odd payload and the largest source port was built
C7_Witness ==
    /\ op.name = "udp_send"
    /\ Len(op.data) % 2 = 1
    /\ op.src_port = 65535
    /\ Len(IpOutCalls) = 1
    /\ Len(IpOutCalls[1].buf) = Len(op.data) + UDP_HDR_LEN

----------------------------------------------------------------------------
(* IPv4 transmit operations *)

\* payload sizes around the fragment boundaries: up to MaxFrags full
\* fragments and a rest
PayloadLens ==
    {k * (IP_MTU - IP_HDR_LEN) + d : k \in 0..MaxFrags, d \in {0, 1, 48, 1479}}

IpOut ==
    /\ ip_id_plain < MaxId
    /\ ip_id_frag < MaxId
    /\ \E n \in PayloadLens :
          Commit(ip_out(World, Pattern(n, n % 7), PeerA, NET_PROTOCOL_UDP),
                 [name |-> "ip_out", buf |-> Pattern(n, n % 7), ip |-> PeerA,
                  protocol |-> NET_PROTOCOL_UDP])

NextIpOut == IpOut \/ ArpLearn

SpecIpOut == Init /\ [][NextIpOut]_vars

----------------------------------------------------------------------------
(* Claims about fragmentation, checked under SpecIpOut *)

\* the packets handed down to arp_out by the last operation
ArpOutCalls == SelectSeq(calls, LAMBDA c : c.fn = "arp_out")

WireId(b) == b[5] * 256 + b[6]
WireMF(b) == (b[7] \div 32) % 2
WireFragOffset(b) == (b[7] % 32) * 256 + b[8]
WireDataLen(b) == Len(b) - IP_HDR_LEN

\* C4: the packets produced by a single ip_out call are handed down in
\* ascending offset order, all carry one id, each carries 1480 data bytes
\* except possibly the last, the offset field is the byte offset divided by 8,
\* MF is 1 on all but the last, and together they cover [0, len) with no gap
\* and no overlap; at most 1480 bytes give one packet with offset 0 and MF = 0;
\* 3008 bytes give 1480, 1480, 48 bytes at offsets 0, 185, 370.
C4_Theorem ==
    op.name = "ip_out" =>
      LET f == ArpOutCalls
          n == Len(f)
      IN  /\ n >= 1
          /\ \A i \in 1..n :
                /\ f[i].ip = op.ip
                /\ WireId(f[i].buf) = WireId(f[1].buf)
                /\ WireTotalLen(f[i].buf) = Len(f[i].buf)
                /\ WireMF(f[i].buf) = (IF i < n THEN 1 ELSE 0)
                /\ i < n => WireDataLen(f[i].buf) = 1480
                /\ WireDataLen(f[i].buf) <= 1480
                /\ WireFragOffset(f[i].buf) * 8
                     = (IF i = 1 THEN 0
                        ELSE WireFragOffset(f[i - 1].buf) * 8 + WireDataLen(f[i - 1].buf))
          /\ WireFragOffset(f[n].buf) * 8 + WireDataLen(f[n].buf) = Len(op.buf)
          /\ Len(op.buf) <= 1480 => n = 1
          /\ Len(op.buf) = 3008 =>
                /\ [i \in 1..n |-> WireDataLen(f[i].buf)] = <<1480, 1480, 48>>
                /\ [i \in 1..n |-> WireFragOffset(f[i].buf)] = <<0, 185, 370>>

\* 3008 bytes were sent in three packets, the second datagram that was
\* fragmented
C4_Witness ==
    /\ op.name = "ip_out"
    /\ Len(op.buf) = 3008
    /\ Len(ArpOutCalls) = 3
    /\ WireId(ArpOutCalls[3].buf) = 1

\* the payload a receiver rebuilds by placing the data of every packet at byte
\* position offset * 8 (-1 where no packet put a byte)
Reassembled(f) ==
    LET last == f[Len(f)].buf
        total == WireFragOffset(last) * 8 + WireDataLen(last)
        Covers(j, pos) ==
            /\ WireFragOffset(f[j].buf) * 8 < pos
            /\ pos <= WireFragOffset(f[j].buf) * 8 + WireDataLen(f[j].buf)
    IN  [pos \in 1..total |->
            IF \E j \in 1..Len(f) : Covers(j, pos)
            THEN LET j == CHOOSE k \in 1..Len(f) : Covers(k, pos)
                 IN  f[j].buf[IP_HDR_LEN + pos - WireFragOffset(f[j].buf) * 8]
            ELSE -1]

\* C5: placing the data part of every packet produced by one ip_out(data) call
\* at byte position offset * 8 reassembles a payload equal to data, byte for
\* byte.
C5_Theorem ==
    op.name = "ip_out" =>
      /\ Len(ArpOutCalls) >= 1
      /\ Reassembled(ArpOutCalls) = op.buf

\* a payload that ends one byte into its third fragment was sent
C5_Witness ==
    /\ op.name = "ip_out"
    /\ Len(op.buf) = 2961
    /\ Len(ArpOutCalls) = 3
    /\ ArpOutCalls[3].buf[IP_HDR_LEN + 1] = op.buf[2961]

----------------------------------------------------------------------------
(* The shared transmit buffer between operations, SpecTxbuf *)

\* ARP packets of the two peers: a REPLY of one, a REQUEST for this host of
\* the other (answered with arp_resp, which builds its reply in txbuf)
TxArpPkts ==
    { arp_pkt(ARP_HW_ETHER, NET_PROTOCOL_IP, NET_MAC_LEN, NET_IP_LEN, ARP_REPLY, MacA,
              PeerA, NET_IF_MAC, NET_IF_IP),
      arp_pkt(ARP_HW_ETHER, NET_PROTOCOL_IP, NET_MAC_LEN, NET_IP_LEN, ARP_REQUEST, MacB,
              PeerB, NoMac, NET_IF_IP) }

\* one IPv4 packet for each peer
TxOutBufs == {buf \in OutBufs : Len(buf) = IP_HDR_LEN + 3}

\* the upper layer builds the packet in txbuf and hands &txbuf down
TxArpOut ==
    \E buf \in TxOutBufs :
        CommitTx(arp_out(txbuf_init(World, buf), buf, ip_dst_of(buf)),
                 [name |-> "arp_out", buf |-> buf, ip |-> ip_dst_of(buf)])

TxArpIn ==
    \E b \in TxArpPkts :
        CommitTx(arp_in(World, b), [name |-> "arp_in", buf |-> b])

\* the application sends a datagram: udp_send builds it in txbuf
TxUdpSend ==
    /\ ip_id_plain < MaxId
    /\ \E d \in {<<7, 7>>}, ip \in Peers :
          CommitTx(udp_send(World, d, PortOpen, ip, PeerPort),
                   [name |-> "udp_send", data |-> d, src_port |-> PortOpen,
                    dst_ip |-> ip, dst_port |-> PeerPort])

TxTick ==
    /\ now < MaxTime
    /\ CommitTx([World EXCEPT !.now = @ + 1], [name |-> "tick"])

NextTxbuf == TxTick \/ TxArpIn \/ TxArpOut \/ TxUdpSend

SpecTxbuf == Init /\ [][NextTxbuf]_vars

\* C18: the pending queue owns its bytes.  Whatever was written to txbuf since,
\* a live pending entry holds the buffer that was passed to the arp_out call
\* that created it, and the arp_in call that resolves the entry emits exactly
\* that buffer, byte for byte from the IP header on, as its only frame.
C18_Theorem ==
    /\ \A ip \in DOMAIN arp_buf.entries :
          map_live(arp_buf, now, ip)
          => (ip \in DOMAIN requested /\ map_get(arp_buf, now, ip) = requested[ip])
    /\ (op.name = "arp_in" /\ arp_well_formed(op.buf)
          /\ map_live(pre.arp_buf, pre.now, arp_sender_ip(op.buf)))
       => /\ Len(out) = 1
          /\ out[1].type = NET_PROTOCOL_IP
          /\ out[1].data = pre.requested[arp_sender_ip(op.buf)]

\* an entry was resolved while txbuf held the frame of a later datagram sent
\* to the other peer
C18_Witness ==
    /\ op.name = "arp_in" /\ arp_well_formed(op.buf)
    /\ map_live(pre.arp_buf, pre.now, arp_sender_ip(op.buf))
    /\ Len(out) = 1
    /\ out[1].data = pre.requested[arp_sender_ip(op.buf)]
    /\ Len(pre.txbuf) > 14 + IP_HDR_LEN
    /\ SubSeq(pre.txbuf, 13, 14) = <<NET_PROTOCOL_IP \div 256, NET_PROTOCOL_IP % 256>>
    /\ Drop(pre.txbuf, 14) # out[1].data
    /\ ip_dst_of(Drop(pre.txbuf, 14)) # arp_sender_ip(op.buf)

----------------------------------------------------------------------------
(* IPv6 and ICMPv6: the builds (interface MACs), the peers and the           *)
(* specification                                                            *)

\* the interface MACs of the builds explored
InterfaceMacs ==
    {NET_IF_MAC, <<2, 17, 34, 51, 68, 85>>, <<255, 254, 128, 3, 0, 171>>,
     <<82, 84, 0, 18, 52, 86>>}

\* the state net_init leaves in a build whose interface MAC is mac
InitIpv6 ==
    \E mac \in InterfaceMacs :
        LET w == [InitWorld EXCEPT !.net_if_mac = mac, !.out = <<>>]
        IN  /\ now = w.now
            /\ arp_table = w.arp_table
            /\ arp_buf = w.arp_buf
            /\ udp_table = w.udp_table
            /\ ip_id_frag = w.ip_id_frag
            /\ ip_id_plain = w.ip_id_plain
            /\ icmp_ping_requests = w.icmp_ping_requests
            /\ icmp_stats = w.icmp_stats
            /\ out = w.out
            /\ calls = w.calls
            /\ op = [name |-> "net_init"]
            /\ pre = w
            /\ requested = NoEntries
            /\ udp_last = NoEntries
            /\ txbuf = <<>>
            /\ arp_last = NoEntries
            /\ net_if_mac = w.net_if_mac
            /\ net_if_ipv6 = w.net_if_ipv6
            /\ icmp_ping_id = w.icmp_ping_id
            /\ ping_app = w.ping_app
            /\ ping_hist = w.ping_hist
            /\ ftp_sessions = w.ftp_sessions
            /\ next_data_port = w.next_data_port
            /\ tcp_table = w.tcp_table

\* peers: a link-local neighbour with an EUI-64 address and a global address
Peer6A == <<254, 128, 0, 0, 0, 0, 0, 0, 2, 170, 187, 255, 254, 204, 221, 238>>
Peer6G == <<32, 1, 13, 184, 0, 0, 0, 0, 0, 0, 0, 0, 0, 0, 0, 5>>
Peers6 == {Peer6A, Peer6G}

\* the IPv6 pseudo-header of an upper-layer message of n bytes
Pseudo6(src, dst, n) ==
    src \o dst \o <<0, 0, n \div 256, n % 256>> \o <<0, 0, 0, IPV6_NEXT_HEADER_ICMPV6>>

\* the ICMPv6 checksum as a receiver verifies it (RFC 4443, 2.3): the words of
\* the pseudo-header and of the message add up to 0xFFFF
Icmpv6ChecksumOK(m, src, dst) ==
    FoldCarry(WireSum(Pseudo6(src, dst, Len(m)) \o m, 1)) = 65535

\* the message m0 as a peer sends it from src to dst: the checksum filled in
peer_icmpv6(m0, src, dst) ==
    LET ck == 65535 - FoldCarry(WireSum(Pseudo6(src, dst, Len(m0)) \o Patch(m0, 2, <<0, 0>>), 1))
    IN  Patch(m0, 2, <<ck \div 256, ck % 256>>)

\* an IPv6 packet as a peer sends it
peer_ipv6(version, payload_len, next_header, src, dst, payload) ==
    <<version * 16, 0, 0, 0, payload_len \div 256, payload_len % 256, next_header, 255>>
    \o src \o dst \o payload

\* an echo message: type, id, seq, data
echo6(type, id, seq, data) ==
    <<type, 0, 0, 0, id \div 256, id % 256, seq \div 256, seq % 256>> \o data

\* the two bytes of data that make the words of the echo reply to
\* echo6(.., id, seq, <<d1, d2>>), sent from src to dst, add up to 0xFFFF with
\* a zero checksum field
ZeroSumData(id, seq, src, dst) ==
    LET m == echo6(ICMPV6_TYPE_ECHO_REPLY, id, seq, <<0, 0>>)
        s == FoldCarry(WireSum(Pseudo6(src, dst, Len(m)) \o m, 1))
    IN  <<(65535 - s) \div 256, (65535 - s) % 256>>

\* a neighbour solicitation for target, with the source link-layer address
\* option or without
ns6(target, opt) == <<ICMPV6_TYPE_NS, 0, 0, 0, 0, 0, 0, 0>> \o target \o opt

\* the ICMPv6 messages a peer at src sends to the interface whose address is us
Icmpv6From(src, us) ==
    { echo6(ICMPV6_TYPE_ECHO_REQUEST, 1, 1, d) :
        d \in {<<>>, <<9>>, <<1, 2, 3, 4>>, ZeroSumData(1, 1, us, src)} }
    \cup { ns6(t, o) : t \in {us, Peer6A, ipv6_all_nodes_multicast},
                       o \in {<<>>, <<NDP_OPTION_SOURCE_LLA, 1, 2, 170, 187, 204, 221, 238>>} }
    \cup { <<ICMPV6_TYPE_NS, 0, 0, 0>> \o Take(us, NET_IPV6_LEN),
           <<ICMPV6_TYPE_NA, 0, 0, 0, 96, 0, 0, 0>> \o src,
           echo6(ICMPV6_TYPE_ECHO_REPLY, 1, 1, <<5>>),
           <<200, 0, 0, 0>> }

\* the packets on the link while the interface's address is us
Ipv6Inputs(us) ==
    LET good == UNION { { [src |-> src, m |-> peer_icmpv6(m0, src, us)] :
                            m0 \in Icmpv6From(src, us) } : src \in Peers6 }
        req == peer_icmpv6(echo6(ICMPV6_TYPE_ECHO_REQUEST, 1, 1, <<7, 7>>), Peer6A, us)
        ns == peer_icmpv6(ns6(us, <<>>), Peer6A, us)
    IN  { peer_ipv6(IPV6_VERSION, Len(g.m), IPV6_NEXT_HEADER_ICMPV6, g.src, us, g.m) : g \in good }
        \cup
        { \* padding after the payload
          peer_ipv6(IPV6_VERSION, Len(req), IPV6_NEXT_HEADER_ICMPV6, Peer6A, us, req \o <<0, 0>>),
          \* a wrong checksum
          peer_ipv6(IPV6_VERSION, Len(req), IPV6_NEXT_HEADER_ICMPV6, Peer6A, us,
                    Patch(req, 2, <<(req[3] + 1) % 256>>)),
          peer_ipv6(IPV6_VERSION, Len(ns), IPV6_NEXT_HEADER_ICMPV6, Peer6A, us,
                    Patch(ns, 3, <<(ns[4] + 1) % 256>>)),
          \* another version, a payload length beyond the packet, a short packet
          peer_ipv6(IP_VERSION_4, Len(req), IPV6_NEXT_HEADER_ICMPV6, Peer6A, us, req),
          peer_ipv6(IPV6_VERSION, Len(req) + 1, IPV6_NEXT_HEADER_ICMPV6, Peer6A, us, req),
          Take(peer_ipv6(IPV6_VERSION, 0, IPV6_NEXT_HEADER_ICMPV6, Peer6A, us, <<>>),
               IPV6_HDR_LEN - 1),
          \* for another node, and for the solicited-node group of us
          peer_ipv6(IPV6_VERSION, Len(req), IPV6_NEXT_HEADER_ICMPV6, Peer6A, Peer6G,
                    peer_icmpv6(req, Peer6A, Peer6G)),
          peer_ipv6(IPV6_VERSION, Len(ns), IPV6_NEXT_HEADER_ICMPV6, Peer6A,
                    solicited_node_multicast(us),
                    peer_icmpv6(ns, Peer6A, solicited_node_multicast(us))),
          \* to all nodes
          peer_ipv6(IPV6_VERSION, Len(req), IPV6_NEXT_HEADER_ICMPV6, Peer6A,
                    ipv6_all_nodes_multicast,
                    peer_icmpv6(req, Peer6A, ipv6_all_nodes_multicast)),
          \* a next header without a handler
          peer_ipv6(IPV6_VERSION, 2, 59, Peer6A, us, <<1, 2>>) }

\* destinations handed to ipv6_out
Dsts6 ==
    { <<255, 2, 0, 0, 0, 0, 0, 0, 0, 0, 0, 1, 255, 0, 0, 1>>,
      ipv6_all_nodes_multicast,
      <<255, 5, 0, 0, 0, 0, 0, 0, 0, 0, 0, 0, 18, 52, 86, 120>>,
      Peer6A,
      <<254, 191, 0, 0, 0, 0, 0, 0, 82, 84, 0, 255, 254, 18, 52, 86>>,
      <<254, 128, 0, 0, 0, 0, 0, 0, 0, 0, 0, 0, 0, 0, 0, 1>>,
      <<254, 192, 0, 0, 0, 0, 0, 0, 2, 170, 187, 255, 254, 204, 221, 238>>,
      <<254, 0, 0, 0, 0, 0, 0, 0, 2, 170, 187, 255, 254, 204, 221, 238>>,
      <<254, 64, 0, 0, 0, 0, 0, 0, 2, 170, 187, 255, 254, 204, 221, 238>>,
      Peer6G,
      <<0, 0, 0, 0, 0, 0, 0, 0, 0, 0, 0, 0, 0, 0, 0, 1>>,
      <<253, 0, 0, 0, 0, 0, 0, 0, 2, 170, 187, 255, 254, 204, 221, 238>> }

Ipv6Init == Commit(ipv6_init(World), [name |-> "ipv6_init"])

Ipv6In ==
    \E b \in Ipv6Inputs(net_if_ipv6) : Commit(ipv6_in(World, b), [name |-> "ipv6_in", buf |-> b])

Ipv6Out ==
    \E ip \in Dsts6, buf \in {<<1, 2, 3>>}, nh \in {IPV6_NEXT_HEADER_UDP, 59} :
        Commit(ipv6_out(txbuf_init(World, buf), buf, ip, nh),
               [name |-> "ipv6_out", buf |-> buf, ip |-> ip, next_header |-> nh])

\* the messages the stack originates
Icmpv6Send ==
    \E ip \in Peers6 :
        \/ \E d \in {<<>>, <<8>>, ZeroSumData(1, 2, net_if_ipv6, ip)} :
             \/ Commit(icmpv6_echo_request(World, ip, 1, 2, d),
                       [name |-> "icmpv6_echo_request", ip |-> ip, id |-> 1, seq |-> 2,
                        data |-> d])
             \/ Commit(icmpv6_unreachable(World, d, ip, 4),
                       [name |-> "icmpv6_unreachable", ip |-> ip, code |-> 4, data |-> d])
        \/ Commit(icmpv6_send_ns(World, ip), [name |-> "icmpv6_send_ns", ip |-> ip])
        \/ \E sol \in {0, 1} :
             Commit(icmpv6_send_na(World, net_if_ipv6, ip, sol),
                    [name |-> "icmpv6_send_na", ip |-> ip, solicited |-> sol])

NextIpv6 == Ipv6Init \/ Ipv6In \/ Ipv6Out \/ Icmpv6Send

SpecIpv6 == InitIpv6 /\ [][NextIpv6]_vars

\* a byte with its universal/local bit (0x02) inverted
FlipUL(x) == IF (x \div 2) % 2 = 1 THEN x - 2 ELSE x + 2

\* C13: for every interface MAC m0..m5, after ipv6_init the interface address
\* is fe80:0000:0000:0000 followed by (m0 XOR 0x02), m1, m2, 0xff, 0xfe, m3,
\* m4, m5; the MAC 02:11:22:33:44:55 gives fe80::0011:22ff:fe33:4455.
C13_Theorem ==
    op.name = "ipv6_init"
    => /\ net_if_mac = pre.net_if_mac
       /\ net_if_ipv6 = <<254, 128, 0, 0, 0, 0, 0, 0, FlipUL(net_if_mac[1]), net_if_mac[2],
                          net_if_mac[3], 255, 254, net_if_mac[4], net_if_mac[5],
                          net_if_mac[6]>>
       /\ (net_if_mac = <<2, 17, 34, 51, 68, 85>>
           => net_if_ipv6 = <<254, 128, 0, 0, 0, 0, 0, 0, 0, 17, 34, 255, 254, 51, 68, 85>>)
       /\ out = <<>>

C13_Witness ==
    /\ op.name = "ipv6_init"
    /\ net_if_mac = <<2, 17, 34, 51, 68, 85>>
    /\ pre.net_if_ipv6 = NET_IF_IPV6
    /\ net_if_ipv6 = <<254, 128, 0, 0, 0, 0, 0, 0, 0, 17, 34, 255, 254, 51, 68, 85>>

\* the frames of the last operation that carry IPv6
Ipv6FramesOut == SelectSeq(out, LAMBDA f : f.type = NET_PROTOCOL_IPV6)

\* the destination MAC the destination address ip calls for
ExpectedMac6(ip) ==
    IF ip[1] = 255 THEN <<51, 51>> \o SubSeq(ip, 13, 16)
    ELSE IF ip[1] = 254 /\ ip[2] \in 128..191
    THEN <<FlipUL(ip[9]), ip[10], ip[11], ip[14], ip[15], ip[16]>>
    ELSE <<255, 255, 255, 255, 255, 255>>

\* C14: ipv6_out picks the Ethernet destination MAC from the destination
\* address alone: 33:33 and ip[12..15] for a multicast address (ff02::1:ff00:0001
\* gives 33:33:ff:00:00:01), the MAC inside the EUI-64 for a link-local address
\* (fe80::/10), the broadcast MAC otherwise.  It holds for the frames of a
\* direct ipv6_out call and for every IPv6 frame any other operation emits.
C14_Theorem ==
    /\ \A i \in 1..Len(out) :
         out[i].type = NET_PROTOCOL_IPV6
         => out[i].dst = ExpectedMac6(SubSeq(out[i].data, 25, 40))
    /\ op.name = "ipv6_out"
       => /\ Len(out) = 1
          /\ out[1].type = NET_PROTOCOL_IPV6
          /\ SubSeq(out[1].data, 25, 40) = op.ip
          /\ out[1].dst = ExpectedMac6(op.ip)
          /\ (op.ip = <<255, 2, 0, 0, 0, 0, 0, 0, 0, 0, 0, 1, 255, 0, 0, 1>>
              => out[1].dst = <<51, 51, 255, 0, 0, 1>>)

C14_Witness ==
    /\ op.name = "ipv6_out"
    /\ op.ip = <<254, 191, 0, 0, 0, 0, 0, 0, 82, 84, 0, 255, 254, 18, 52, 86>>
    /\ Len(out) = 1
    /\ out[1].dst = <<80, 84, 0, 18, 52, 86>>

\* the fields of an IPv6 packet on the wire
Wire6PayloadLen(b) == b[5] * 256 + b[6]
Wire6Src(b) == SubSeq(b, 9, 24)
Wire6Dst(b) == SubSeq(b, 25, 40)
Wire6Payload(b) == SubSeq(b, 41, 40 + Wire6PayloadLen(b))

\* b is a well-formed IPv6 packet for the address us that carries an ICMPv6
\* message of the given type and of at least n bytes, its checksum valid under
\* the pseudo-header of the packet's addresses
ValidIcmpv6ForUs(b, us, type, n) ==
    /\ Len(b) >= 40
    /\ b[1] \div 16 = 6
    /\ Wire6PayloadLen(b) <= Len(b) - 40
    /\ Wire6Dst(b) = us
    /\ b[7] = 58
    /\ Wire6PayloadLen(b) >= n
    /\ Wire6Payload(b)[1] = type
    /\ Icmpv6ChecksumOK(Wire6Payload(b), Wire6Src(b), us)

\* the only frame of the last operation is an IPv6 packet from us to dst that
\* carries a checksum-valid ICMPv6 message
OneIcmpv6To(us, dst) ==
    /\ Len(out) = 1
    /\ out[1].type = NET_PROTOCOL_IPV6
    /\ out[1].src = net_if_mac
    /\ Len(out[1].data) >= 44
    /\ out[1].data[1] \div 16 = 6
    /\ Wire6PayloadLen(out[1].data) = Len(out[1].data) - 40
    /\ out[1].data[7] = 58
    /\ Wire6Src(out[1].data) = us
    /\ Wire6Dst(out[1].data) = dst
    /\ Icmpv6ChecksumOK(Wire6Payload(out[1].data), us, dst)

\* C12: a checksum-valid ICMPv6 ECHO_REQUEST (type 128) addressed to our IPv6
\* address yields exactly one ECHO_REPLY (type 129, code 0) sent to the
\* requester, with the same id, seq and payload and a checksum that the
\* receiver's recomputation under the pseudo-header (src = our address, dst =
\* the requester) accepts.
C12_Theorem ==
    (op.name = "ipv6_in"
       /\ ValidIcmpv6ForUs(op.buf, pre.net_if_ipv6, ICMPV6_TYPE_ECHO_REQUEST, 8))
    => /\ OneIcmpv6To(pre.net_if_ipv6, Wire6Src(op.buf))
       /\ LET req == Wire6Payload(op.buf)
              rep == Wire6Payload(out[1].data)
          IN  /\ Len(rep) = Len(req)
              /\ rep[1] = 129
              /\ rep[2] = 0
              /\ Drop(rep, 4) = Drop(req, 4)

C12_Witness ==
    /\ op.name = "ipv6_in"
    /\ ValidIcmpv6ForUs(op.buf, pre.net_if_ipv6, ICMPV6_TYPE_ECHO_REQUEST, 8)
    /\ pre.net_if_ipv6 # NET_IF_IPV6
    /\ Wire6PayloadLen(op.buf) = 9
    /\ Len(op.buf) = 49
    /\ Len(out) = 1
    /\ Wire6Payload(out[1].data)[1] = 129
    /\ Wire6Payload(out[1].data)[9] = 9

C11_Witness_Other ==
    /\ op.name = "ipv6_in"
    /\ ValidIcmpv6ForUs(op.buf, pre.net_if_ipv6, ICMPV6_TYPE_NS, 24)
    /\ SubSeq(Wire6Payload(op.buf), 9, 24) = Peer6A
    /\ out = <<>>

\* C17: whenever the checksum computed for an outgoing ICMPv6 message would be
\* 0, the value written to the checksum field is 0xFFFF: no ICMPv6 message
\* leaves with a checksum field of 0.
C17_Claim ==
    \A i \in 1..Len(out) :
        (out[i].type = NET_PROTOCOL_IPV6 /\ out[i].data[7] = IPV6_NEXT_HEADER_ICMPV6)
        => SubSeq(Wire6Payload(out[i].data), 3, 4) # <<0, 0>>

----------------------------------------------------------------------------
(* The ping application (src/app/ping_app.c)                                 *)

PING_COUNT == 4
PING_INTERVAL == 1

\* the host named on the command line
target_ip == PeerA

\* no frame is waiting in the driver
NoFrame == [type |-> 0, data |-> <<>>]

\* net_poll: at most one frame is taken from the driver and dispatched by its
\* ethertype
net_poll(w, f) ==
    IF f.type = NET_PROTOCOL_ARP THEN arp_in(w, f.data)
    ELSE IF f.type = NET_PROTOCOL_IP THEN ip_in(w, f.data)
    ELSE w

\* the loop of main leaving only when an echo reply has come for every request
ping_main_loop_waits_for_replies(w, f) ==
    LET a == w.ping_app
        send == a.ping_sent_count < PING_COUNT /\ w.now - a.last_ping_time >= PING_INTERVAL
        w1 == IF send
              THEN [icmp_ping_request(w, target_ip) EXCEPT
                      !.ping_app.ping_sent_count = @ + 1,
                      !.ping_app.last_ping_time = w.now,
                      !.ping_hist.sent_at = Append(@, w.now)]
              ELSE w
        w2 == [net_poll(w1, f) EXCEPT !.ping_hist.polled = TRUE]
    IN  IF w2.ping_app.ping_sent_count >= PING_COUNT
           /\ w2.icmp_stats.received >= PING_COUNT
        THEN Note([w2 EXCEPT !.ping_app.pc = "done"],
                  [fn |-> "icmp_ping_report_stats", sent |-> w2.icmp_stats.sent,
                   received |-> w2.icmp_stats.received])
        ELSE w2

\* one iteration of the loop of main while the frame f waits in the driver
\* (f = NoFrame: none), and icmp_ping_report_stats when the loop is left
ping_main_loop(w, f) ==
    LET a == w.ping_app
        send == a.ping_sent_count < PING_COUNT /\ w.now - a.last_ping_time >= PING_INTERVAL
        w1 == IF send
              THEN [icmp_ping_request(w, target_ip) EXCEPT
                      !.ping_app.ping_sent_count = @ + 1,
                      !.ping_app.last_ping_time = w.now,
                      !.ping_hist.sent_at = Append(@, w.now)]
              ELSE w
        w2 == [net_poll(w1, f) EXCEPT !.ping_hist.polled = TRUE]
    IN  IF w2.ping_app.ping_sent_count >= PING_COUNT
           /\ icmp_get_pending_requests_count(w2) = 0
        THEN Note([w2 EXCEPT !.ping_app.pc = "done"],
                  [fn |-> "icmp_ping_report_stats", sent |-> w2.icmp_stats.sent,
                   received |-> w2.icmp_stats.received])
        ELSE w2

\* the frames that may wait in the driver: none, an ARP reply of the target,
\* the target's echo reply to the first and to the last request
PingFrames ==
    {NoFrame,
     [type |-> NET_PROTOCOL_ARP,
      data |-> arp_pkt(ARP_HW_ETHER, NET_PROTOCOL_IP, NET_MAC_LEN, NET_IP_LEN, ARP_REPLY,
                       MacA, target_ip, NET_IF_MAC, NET_IF_IP)]}
    \cup { [type |-> NET_PROTOCOL_IP,
            data |-> peer_ip(NET_PROTOCOL_ICMP, target_ip, NET_IF_IP, <<>>,
                             peer_icmp(ICMP_TYPE_ECHO_REPLY, 0, swap16(seq), swap16(seq),
                                       <<1, 2>>))] : seq \in {0, PING_COUNT - 1} }

\* the clock has advanced past every instant at which main can still be waiting
PingHorizon == (PING_COUNT * PING_INTERVAL) + ICMP_PING_TIMEOUT + 1

\* main, line 56
PingStart ==
    /\ ping_app.pc = "main"
    /\ Commit([World EXCEPT !.ping_app.last_ping_time = now, !.ping_app.pc = "loop"],
              [name |-> "ping_start"])

PingLoop ==
    /\ ping_app.pc = "loop"
    /\ \E f \in PingFrames : Commit(ping_main_loop(World, f), [name |-> "ping_loop", frame |-> f])

\* a second passes; the loop polls without blocking, so it has run since the
\* second before
PingTick ==
    /\ ping_app.pc = "loop"
    /\ ping_hist.polled
    /\ now < PingHorizon
    /\ Commit([World EXCEPT !.now = @ + 1, !.ping_hist.polled = FALSE], [name |-> "tick"])

NextPing == PingStart \/ PingLoop \/ PingTick

\* weak fairness of the loop of main, WF_vars(PingLoop), written out.  A step
\* <<PingLoop>>_vars is possible exactly while main is in its loop (an
\* iteration can always take a frame other than the one op records, and so
\* change op), and the PingLoop steps are the steps that leave op.name =
\* "ping_loop" behind
PingLoopFair ==
    \/ []<>(ping_app.pc # "loop")
    \/ []<><<ping_app.pc = "loop" /\ op'.name = "ping_loop">>_vars

\* the process is scheduled and the clock runs
SpecPing ==
    Init /\ [][NextPing]_vars /\ PingLoopFair /\ WF_vars(PingTick) /\ WF_vars(PingStart)

\* every echo record still in the map is older than ICMP_PING_TIMEOUT (a
\* record matched by a reply has been deleted)
AllMatchedOrExpired ==
    \A k \in DOMAIN icmp_ping_requests.entries :
        icmp_ping_requests.entries[k].ts + ICMP_PING_TIMEOUT < now

\* what holds of the ping application in every state
PingSafety ==
    /\ Len(ping_hist.sent_at) = ping_app.ping_sent_count
    /\ icmp_stats.sent = ping_app.ping_sent_count
    /\ ping_app.ping_sent_count <= PING_COUNT
    /\ \A i \in 1..(Len(ping_hist.sent_at) - 1) :
         ping_hist.sent_at[i + 1] - ping_hist.sent_at[i] >= PING_INTERVAL
    /\ (ping_app.pc = "loop" /\ op.name = "ping_loop" /\ ping_app.ping_sent_count = PING_COUNT)
       => ~AllMatchedOrExpired
    /\ ping_app.pc = "done"
       => /\ ping_app.ping_sent_count = PING_COUNT
          /\ AllMatchedOrExpired
          /\ calls # <<>>
          /\ calls[Len(calls)] = [fn |-> "icmp_ping_report_stats", sent |-> PING_COUNT,
                                  received |-> icmp_stats.received]

\* C16: the ping application sends exactly 4 echo requests, successive ones at
\* least 1 second apart, and it always terminates and reports statistics: once
\* 4 requests are sent, the loop exits as soon as every echo record has been
\* matched by a reply or has expired (5 s), so it terminates even if no reply
\* ever arrives.
C16_Theorem == []PingSafety /\ <>(ping_app.pc = "done")

\* main has returned without a single reply
C16_Witness ==
    /\ ping_app.pc = "done"
    /\ icmp_stats.sent = PING_COUNT
    /\ icmp_stats.received = 0
    /\ ping_hist.sent_at = <<1, 2, 3, 4>>
    /\ now = PingHorizon

----------------------------------------------------------------------------
(* Received checksums: UDP datagrams and ICMPv6 messages *)

\* the application opens one port
UdpOpenOne ==
    Commit(udp_open(World, PortOpen, "h1"),
           [name |-> "udp_open", port |-> PortOpen, handler |-> "h1"])

NextRxChecksum == ArpLearn \/ UdpOpenOne \/ UdpIn \/ Ipv6In

SpecRxChecksum == Init /\ [][NextRxChecksum]_vars

\* ip_in has accepted a UDP datagram of consistent length whose words, with
\* the pseudo-header of its addresses, do not add up to 0xFFFF
UdpChecksumWrong ==
    /\ op.name = "ip_in" /\ ValidForUs(op.buf) /\ op.buf[10] = NET_PROTOCOL_UDP
    /\ Len(WirePayload(op.buf)) >= 8
    /\ WirePayload(op.buf)[5] * 256 + WirePayload(op.buf)[6] <= Len(WirePayload(op.buf))
    /\ ~UdpChecksumOK(WirePayload(op.buf), WireSrc(op.buf), NET_IF_IP)

\* ipv6_in has accepted an ICMPv6 message whose words, with the pseudo-header
\* the receiver builds (the packet's source, the interface address), do not
\* add up to 0xFFFF
Icmpv6ChecksumWrong ==
    /\ op.name = "ipv6_in"
    /\ Len(op.buf) >= 40
    /\ op.buf[1] \div 16 = 6
    /\ Wire6PayloadLen(op.buf) <= Len(op.buf) - 40
    /\ Wire6Dst(op.buf) \in {pre.net_if_ipv6, ipv6_all_nodes_multicast}
    /\ op.buf[7] = 58
    /\ Wire6PayloadLen(op.buf) >= 4
    /\ ~Icmpv6ChecksumOK(Wire6Payload(op.buf), Wire6Src(op.buf), pre.net_if_ipv6)

\* only the protocol's own input function ran: no application handler, no
\* output function
OnlyInputCalled ==
    \A i \in 1..Len(calls) : calls[i].fn \in {"net_handler", "icmpv6_in"}

\* C23: a received UDP datagram or ICMPv6 message whose checksum does not
\* match the recomputed pseudo-header checksum is dropped silently: no handler
\* is invoked, no frame is emitted (no ICMP error, no reply), and the UDP
\* table, the ARP state and the ping statistics are unchanged.
C23_Theorem ==
    (UdpChecksumWrong \/ Icmpv6ChecksumWrong)
    => /\ OnlyInputCalled
       /\ out = <<>>
       /\ udp_table = pre.udp_table
       /\ arp_table = pre.arp_table
       /\ arp_buf = pre.arp_buf
       /\ icmp_stats = pre.icmp_stats
       /\ icmp_ping_requests = pre.icmp_ping_requests

\* a datagram with a wrong checksum for a port with a handler was dropped
\* while the sender's MAC was known
C23_Witness ==
    /\ UdpChecksumWrong
    /\ map_live(pre.udp_table, pre.now, WireDstPort(op.buf))
    /\ map_live(pre.arp_table, pre.now, WireSrc(op.buf))
    /\ calls # <<>>
    /\ out = <<>>

\* an echo request with a wrong checksum reached icmpv6_in and was dropped
C23_Witness_Icmpv6 ==
    /\ Icmpv6ChecksumWrong
    /\ Wire6Dst(op.buf) = pre.net_if_ipv6
    /\ Wire6Payload(op.buf)[1] = ICMPV6_TYPE_ECHO_REQUEST
    /\ calls # <<>>
    /\ out = <<>>

----------------------------------------------------------------------------
(* A packet of ip_fragment_out at its receiver *)

\* what ip_out hands to ip_fragment_out: a payload, the destination, the
\* protocol (one of them without a handler at the receiver), an id, and an
\* offset in 8-byte units with the MF flag
FragmentPayloads == {<<>>, <<7>>, Pattern(48, 1)}
FragmentProtocols == {NET_PROTOCOL_ICMP, NET_PROTOCOL_UDP, NET_PROTOCOL_TCP, 253}
FragmentCalls ==
    UNION { { <<d, PeerA, pr, 258, <<0, 0>>>>, <<d, PeerA, pr, 65535, <<185, 1>>>> } :
              d \in FragmentPayloads, pr \in FragmentProtocols }
    \cup { <<Pattern(IP_MTU - IP_HDR_LEN, 2), PeerA, NET_PROTOCOL_UDP, 65535, <<185, 1>>>>,
           <<Pattern(IP_MTU - IP_HDR_LEN, 2), PeerA, NET_PROTOCOL_TCP, 0, <<370, 0>>>>,
           <<<<7>>, PeerB, NET_PROTOCOL_UDP, 0, <<0, 1>>>>,
           <<Pattern(48, 1), PeerB, NET_PROTOCOL_ICMP, 1, <<185, 0>>>> }

IpFragmentOut ==
    \E c \in FragmentCalls :
        Commit(ip_fragment_out(World, c[1], c[2], c[3], c[4], c[5][1], c[5][2]),
               [name |-> "ip_fragment_out", buf |-> c[1], ip |-> c[2],
                protocol |-> c[3], id |-> c[4], offset |-> c[5][1], mf |-> c[5][2]])

NextIpFragment == IpFragmentOut \/ ArpLearn

SpecIpFragment == Init /\ [][NextIpFragment]_vars

\* the stack of the host whose IPv4 address is ip
ReceiverAt(ip) == [InitWorld EXCEPT !.net_if_ip = ip, !.out = <<>>]

\* C24: every packet emitted by ip_fragment_out passes every validation step
\* of ip_in at a receiver whose IPv4 address equals the packet's destination
\* (version 4, header length 20, total_len equal to the packet length, header
\* checksum equal to the recomputed one, the words of the header adding up to
\* 0xFFFF), and the receiver dispatches it with the protocol number and the
\* source address (the sender's IP) the sender set: the handler of a
\* registered protocol gets the payload, an unregistered protocol is answered
\* to the sender.
C24_Theorem ==
    op.name = "ip_fragment_out" =>
      /\ Len(ArpOutCalls) = 1
      /\ ArpOutCalls[1].ip = op.ip
      /\ \A i \in Ipv4FramesOut : out[i].data = ArpOutCalls[1].buf
      /\ LET pkt == ArpOutCalls[1].buf
             r == ReceiverAt(op.ip)
             rc == ip_in(r, pkt).calls
         IN  /\ pkt[1] \div 16 = 4
             /\ WireIhl(pkt) = 20
             /\ WireTotalLen(pkt) = Len(pkt)
             /\ WireChecksumOK(Take(pkt, 20))
             /\ WireDst(pkt) = op.ip
             /\ ip_in_accepts(r, pkt)
             /\ Len(rc) >= 1
             /\ IF net_registered(op.protocol)
                THEN rc[1] = [fn |-> "net_handler", protocol |-> op.protocol,
                              data |-> op.buf, src |-> NET_IF_IP]
                ELSE /\ rc[1].fn = "ip_out"
                     /\ rc[1].ip = NET_IF_IP
                     /\ rc[1].protocol = NET_PROTOCOL_ICMP

\* a full-size fragment with MF set and the largest id left for the peer's
\* MAC and its receiver hands 1480 bytes to the UDP handler
C24_Witness ==
    /\ op.name = "ip_fragment_out"
    /\ op.mf = 1 /\ op.id = 65535 /\ op.offset = 185
    /\ op.protocol = NET_PROTOCOL_UDP
    /\ Len(op.buf) = IP_MTU - IP_HDR_LEN
    /\ Len(out) = 1 /\ out[1].type = NET_PROTOCOL_IP /\ out[1].dst = MacA
    /\ Len(ip_in(ReceiverAt(op.ip), out[1].data).calls[1].data) = Len(op.buf)

----------------------------------------------------------------------------
(* Echo requests of this host and the replies to them *)

\* the application asks for an echo request to PeerA
PingRequest ==
    /\ icmp_stats.sent < MaxId
    /\ Commit(icmp_ping_request(World, PeerA), [name |-> "icmp_ping_request", ip |-> PeerA])

\* PeerA's echo reply to the request with the sequence number seq: the id and
\* seq bytes are the ones the request carried
EchoReply(seq) ==
    peer_ip(NET_PROTOCOL_ICMP, PeerA, NET_IF_IP, <<>>,
            peer_icmp(ICMP_TYPE_ECHO_REPLY, 0, swap16(seq), swap16(seq), <<1, 2>>))

\* replies arrive in any order and any number of times, also for a sequence
\* number that was never sent
EchoReplyIn ==
    \E seq \in 0..MaxId :
        Commit(ip_in(World, EchoReply(seq)), [name |-> "ip_in", buf |-> EchoReply(seq)])

\* the first second at which a record made at second 0 has expired
EchoHorizon == ICMP_PING_TIMEOUT + 1

\* a second passes
EchoTick ==
    /\ now < EchoHorizon
    /\ Commit([World EXCEPT !.now = @ + 1], [name |-> "tick"])

NextEcho == PingRequest \/ EchoReplyIn \/ EchoTick

SpecEcho == Init /\ [][NextEcho]_vars

\* ip_in has accepted an ICMPv4 ECHO_REPLY of at least 8 bytes
EchoReplyReceived ==
    /\ op.name = "ip_in" /\ ValidForUs(op.buf) /\ op.buf[10] = NET_PROTOCOL_ICMP
    /\ Len(WirePayload(op.buf)) >= 8
    /\ WirePayload(op.buf)[1] = ICMP_TYPE_ECHO_REPLY

\* the seq field of the reply, read as the host reads it
WireSeq(b) == WirePayload(b)[7] + 256 * WirePayload(b)[8]

\* the round-trip time of the reply in milliseconds
Rtt == (now - pre.icmp_ping_requests.entries[WireSeq(op.buf)].value.timestamp) * 1000

\* C25: on receipt of an ICMPv4 ECHO_REPLY whose seq has a live echo record,
\* received grows by exactly 1, the RTT (now - send_time) * 1000 ms is added to
\* total, min and max are folded (the first reception seeds min) and the
\* record is deleted; on receipt of an ECHO_REPLY whose seq has no live record
\* (never sent, already answered, or older than 5 s) the statistics and the
\* echo map are unchanged, so a duplicated reply is counted once.
C25_Theorem ==
    EchoReplyReceived =>
      IF map_live(pre.icmp_ping_requests, pre.now, WireSeq(op.buf))
      THEN /\ icmp_stats.received = pre.icmp_stats.received + 1
           /\ icmp_stats.sent = pre.icmp_stats.sent
           /\ icmp_stats.total_time = pre.icmp_stats.total_time + Rtt
           /\ icmp_stats.min_time
                = (IF pre.icmp_stats.received = 0 \/ Rtt < pre.icmp_stats.min_time
                   THEN Rtt ELSE pre.icmp_stats.min_time)
           /\ icmp_stats.max_time
                = (IF Rtt > pre.icmp_stats.max_time THEN Rtt ELSE pre.icmp_stats.max_time)
           /\ DOMAIN icmp_ping_requests.entries
                = (DOMAIN pre.icmp_ping_requests.entries) \ {WireSeq(op.buf)}
           /\ \A k \in DOMAIN icmp_ping_requests.entries :
                icmp_ping_requests.entries[k] = pre.icmp_ping_requests.entries[k]
           /\ out = <<>>
      ELSE /\ icmp_stats = pre.icmp_stats
           /\ icmp_ping_requests = pre.icmp_ping_requests
           /\ out = <<>>

\* the second reply counted came back faster than the first: min was folded,
\* max kept
C25_Witness ==
    /\ EchoReplyReceived
    /\ map_live(pre.icmp_ping_requests, pre.now, WireSeq(op.buf))
    /\ pre.icmp_stats.received = 1
    /\ icmp_stats.received = 2
    /\ icmp_stats.min_time = Rtt
    /\ icmp_stats.min_time < pre.icmp_stats.min_time
    /\ icmp_stats.max_time = pre.icmp_stats.max_time
    /\ icmp_stats.total_time = icmp_stats.min_time + icmp_stats.max_time

\* a second reply for an answered request changed nothing
C25_Witness_Duplicate ==
    /\ EchoReplyReceived
    /\ WireSeq(op.buf) < pre.icmp_stats.sent
    /\ WireSeq(op.buf) \notin DOMAIN pre.icmp_ping_requests.entries
    /\ pre.icmp_stats.received >= 1
    /\ icmp_stats = pre.icmp_stats

\* a reply that came more than 5 s after its request changed nothing
C25_Witness_Late ==
    /\ EchoReplyReceived
    /\ WireSeq(op.buf) \in DOMAIN pre.icmp_ping_requests.entries
    /\ ~map_live(pre.icmp_ping_requests, pre.now, WireSeq(op.buf))
    /\ icmp_stats = pre.icmp_stats
    /\ icmp_ping_requests = pre.icmp_ping_requests

----------------------------------------------------------------------------
(* The IPv6 receive path with every next header *)

\* what a peer sends above IPv6 besides ICMPv6: a UDP datagram with the
\* checksum of its IPv6 pseudo-header, a TCP segment, each to our address and
\* to all nodes, bare or followed by padding; and some that ipv6_in must refuse
Ipv6UpperInputs(us) ==
    LET dgram == <<3, 232, 0, 53, 0, 10, 0, 0, 1, 2>>
        udp6(dst) == Patch(dgram, 6,
                           LET ck == 65535 - FoldCarry(WireSum(
                                        Peer6A \o dst \o <<0, 0, 0, Len(dgram)>>
                                        \o <<0, 0, 0, IPV6_NEXT_HEADER_UDP>> \o dgram, 1))
                           IN  <<ck \div 256, ck % 256>>)
        seg == <<0, 80, 4, 210, 0, 0, 0, 1, 0, 0, 0, 0, 80, 2, 16, 0, 0, 0, 0, 0>>
    IN  UNION { { peer_ipv6(IPV6_VERSION, Len(udp6(dst)), IPV6_NEXT_HEADER_UDP, Peer6A, dst,
                            udp6(dst) \o pad),
                  peer_ipv6(IPV6_VERSION, Len(seg), IPV6_NEXT_HEADER_TCP, Peer6G, dst,
                            seg \o pad) } :
                dst \in {us, ipv6_all_nodes_multicast}, pad \in {<<>>, <<0, 0, 0>>} }
        \cup
        { peer_ipv6(IPV6_VERSION, Len(seg), IPV6_NEXT_HEADER_TCP, Peer6A, Peer6G, seg),
          peer_ipv6(IPV6_VERSION, Len(seg) + 1, IPV6_NEXT_HEADER_TCP, Peer6A, us, seg),
          peer_ipv6(IPV6_VERSION + 1, Len(udp6(us)), IPV6_NEXT_HEADER_UDP, Peer6A, us, udp6(us)),
          peer_ipv6(IPV6_VERSION, Len(udp6(us)), IPV6_NEXT_HEADER_UDP, Peer6A,
                    solicited_node_multicast(us), udp6(us)) }

Ipv6InUpper ==
    \E b \in Ipv6Inputs(net_if_ipv6) \cup Ipv6UpperInputs(net_if_ipv6) :
        Commit(ipv6_in(World, b), [name |-> "ipv6_in", buf |-> b])

NextIpv6In == Ipv6Init \/ UdpOpenOne \/ Ipv6InUpper

SpecIpv6In == InitIpv6 /\ [][NextIpv6In]_vars

\* the checks a packet must pass at the interface whose address is us
Accepted6(b, us) ==
    /\ Len(b) >= 40
    /\ b[1] \div 16 = 6
    /\ Wire6PayloadLen(b) <= Len(b) - 40
    /\ Wire6Dst(b) \in {us, ipv6_all_nodes_multicast}

\* C26: ipv6_in passes a packet to an upper layer only if its length is >= 40,
\* its version is 6, payload_len <= length - 40 and its destination is our
\* IPv6 address or the all-nodes multicast ff02::1; an accepted packet is
\* trimmed to 40 + payload_len bytes, its 40-byte header is removed and it is
\* dispatched by next_header (58: icmpv6_in, 6 and 17: the TCP and the UDP
\* handler, any other: none) with the packet's source address; every other
\* packet invokes no handler, emits nothing and changes nothing.
C26_Theorem ==
    op.name = "ipv6_in" =>
      IF Accepted6(op.buf, pre.net_if_ipv6)
      THEN IF op.buf[7] = 58
           THEN /\ calls # <<>>
                /\ calls[1] = [fn |-> "icmpv6_in", data |-> Wire6Payload(op.buf),
                               src |-> Wire6Src(op.buf)]
           ELSE IF op.buf[7] \in {6, 17}
           THEN /\ calls # <<>>
                /\ calls[1] = [fn |-> "net_handler",
                               protocol |-> (IF op.buf[7] = 6 THEN NET_PROTOCOL_TCP
                                             ELSE NET_PROTOCOL_UDP),
                               data |-> Wire6Payload(op.buf), src |-> Wire6Src(op.buf)]
           ELSE calls = <<>> /\ out = <<>>
      ELSE /\ calls = <<>>
           /\ out = <<>>
           /\ [World EXCEPT !.out = pre.out, !.calls = pre.calls] = pre

\* a padded UDP datagram to all nodes reached the UDP handler without its
\* padding and with the sender's address
C26_Witness ==
    /\ op.name = "ipv6_in"
    /\ Accepted6(op.buf, pre.net_if_ipv6)
    /\ pre.net_if_ipv6 # NET_IF_IPV6
    /\ Wire6Dst(op.buf) = ipv6_all_nodes_multicast
    /\ op.buf[7] = 17
    /\ Len(op.buf) > 40 + Wire6PayloadLen(op.buf)
    /\ calls # <<>>
    /\ calls[1].fn = "net_handler" /\ calls[1].protocol = NET_PROTOCOL_UDP
    /\ Len(calls[1].data) = Wire6PayloadLen(op.buf)
    /\ calls[1].src = Peer6A

\* a packet for the solicited-node group of the interface was dropped
C26_Witness_Dropped ==
    /\ op.name = "ipv6_in"
    /\ ~Accepted6(op.buf, pre.net_if_ipv6)
    /\ Len(op.buf) >= 40 /\ op.buf[1] \div 16 = 6
    /\ Wire6Dst(op.buf)[1] = 255
    /\ calls = <<>> /\ out = <<>>

----------------------------------------------------------------------------
(* ICMPv6 messages sent to all nodes *)

\* ipv6_in has accepted, for the all-nodes group, an ICMPv6 message whose
\* checksum is valid under the pseudo-header of the packet's own addresses
ValidIcmpv6ToAllNodes ==
    /\ op.name = "ipv6_in"
    /\ Accepted6(op.buf, pre.net_if_ipv6)
    /\ Wire6Dst(op.buf) = ipv6_all_nodes_multicast
    /\ op.buf[7] = 58
    /\ Wire6PayloadLen(op.buf) >= 4
    /\ Icmpv6ChecksumOK(Wire6Payload(op.buf), Wire6Src(op.buf), ipv6_all_nodes_multicast)

\* C27: an ICMPv6 message that ipv6_in accepts because its destination is the
\* all-nodes multicast ff02::1, and whose checksum is valid under the
\* pseudo-header built from the packet's actual source and destination
\* addresses, passes the checksum verification in icmpv6_in and is dispatched
\* by type: an echo request sent to ff02::1 gets an echo reply.
C27_Claim ==
    ValidIcmpv6ToAllNodes
    => /\ icmpv6_in_accepts(pre, Wire6Payload(op.buf), Wire6Src(op.buf))
       /\ Wire6Payload(op.buf)[1] = ICMPV6_TYPE_ECHO_REQUEST
          => /\ OneIcmpv6To(pre.net_if_ipv6, Wire6Src(op.buf))
             /\ Wire6Payload(out[1].data)[1] = ICMPV6_TYPE_ECHO_REPLY

----------------------------------------------------------------------------
(* The checksum of destination-unreachable messages *)

\* the ICMP messages of type 3 that the last operation handed to ip_out
UnreachableMessages ==
    SelectSeq(calls, LAMBDA c : /\ c.fn = "ip_out"
                                /\ c.protocol = NET_PROTOCOL_ICMP
                                /\ c.buf[1] = ICMP_TYPE_UNREACH)

\* C28: every message built by icmp_unreachable, including those of odd total
\* length (original packet with an odd payload shorter than 8 bytes), carries
\* a checksum that a receiver accepts when it verifies with the Internet
\* checksum it accepts echo replies with (a trailing odd byte padded with a
\* zero byte after it in wire order).
C28_Claim ==
    \A i \in 1..Len(UnreachableMessages) : WireChecksumOK(UnreachableMessages[i].buf)

----------------------------------------------------------------------------
(* The first word of the IPv6 header: set, then get *)

\* every version and traffic class; for the flow label the value of
\* test_ipv6_header (0x12345) and the corners of the field
HdrVersions == 0..15
HdrTrafficClasses == 0..255
HdrFlowLabels == {0, 1, 65535, 65536, 74565, 524288, 983040, 1048575}

\* the state net_init leaves, with o in the place of the last operation
InitWith(o) ==
    LET w == [InitWorld EXCEPT !.out = <<>>]
    IN  /\ now = w.now
        /\ arp_table = w.arp_table
        /\ arp_buf = w.arp_buf
        /\ udp_table = w.udp_table
        /\ ip_id_frag = w.ip_id_frag
        /\ ip_id_plain = w.ip_id_plain
        /\ icmp_ping_requests = w.icmp_ping_requests
        /\ icmp_stats = w.icmp_stats
        /\ out = w.out
        /\ calls = w.calls
        /\ op = o
        /\ pre = w
        /\ requested = NoEntries
        /\ udp_last = NoEntries
        /\ txbuf = <<>>
        /\ arp_last = NoEntries
        /\ net_if_mac = w.net_if_mac
        /\ net_if_ipv6 = w.net_if_ipv6
        /\ icmp_ping_id = w.icmp_ping_id
        /\ ping_app = w.ping_app
        /\ ping_hist = w.ping_hist
        /\ ftp_sessions = w.ftp_sessions
        /\ next_data_port = w.next_data_port
        /\ tcp_table = w.tcp_table

\* the state before test_ipv6_header runs, the arguments chosen
InitHdr ==
    \E version \in HdrVersions, tc \in HdrTrafficClasses, flow \in HdrFlowLabels :
        InitWith([name |-> "test_ipv6_header", version |-> version, tc |-> tc,
                  flow |-> flow])

\* the setter fills the first word of a zeroed header
SetVersionTcFlow ==
    /\ op.name = "test_ipv6_header"
    /\ Commit(World, [name |-> "ipv6_set_version_tc_flow", version |-> op.version,
                      tc |-> op.tc, flow |-> op.flow,
                      hdr |-> ipv6_set_version_tc_flow(op.version, op.tc, op.flow)])

NextHdr == SetVersionTcFlow

SpecHdr == InitHdr /\ [][NextHdr]_vars

\* C29: for every version in 0..15, traffic class in 0..255 and flow label in
\* 0..0xFFFFF, after ipv6_set_version_tc_flow(hdr, version, tc, flow) the
\* getters ipv6_get_version, ipv6_get_traffic_class and ipv6_get_flow_label
\* return exactly version, tc and flow: the three fields do not overlap in the
\* 32-bit word.
C29_Theorem ==
    op.name = "ipv6_set_version_tc_flow" =>
      /\ ipv6_get_version(op.hdr) = op.version
      /\ ipv6_get_traffic_class(op.hdr) = op.tc
      /\ ipv6_get_flow_label(op.hdr) = op.flow

\* the header of the test: version 6, traffic class 0xAB, flow label 0x12345
\* give the bytes 6a b1 23 45
C29_Witness ==
    /\ op.name = "ipv6_set_version_tc_flow"
    /\ op.version = 6 /\ op.tc = 171 /\ op.flow = 74565
    /\ op.hdr = <<106, 177, 35, 69>>
    /\ ipv6_get_traffic_class(op.hdr) = 171
    /\ ipv6_get_flow_label(op.hdr) = 74565

----------------------------------------------------------------------------
(* A peer's EUI-64 link-local address and the MAC ipv6_out sends to *)

\* the MACs of peers: every first byte (the universal/local bit and the
\* group bit in all combinations) with other bytes that look like a prefix, a
\* filler or a multicast MAC
PeerMacTails ==
    { <<17, 34, 51, 68, 85>>, <<0, 0, 0, 0, 0>>, <<255, 254, 255, 254, 255>>,
      <<128, 255, 254, 128, 2>>, <<51, 255, 0, 0, 1>> }

\* a peer whose interface MAC is mac is on the link
InitEui64 ==
    \E m1 \in 0..255, tail \in PeerMacTails :
        InitWith([name |-> "peer", mac |-> <<m1>> \o tail])

\* the address the peer's own ipv6_init derives from its MAC
PeerLinkLocal(mac) == ipv6_init([InitWorld EXCEPT !.net_if_mac = mac]).net_if_ipv6

\* this host sends a packet to the peer's link-local address
SendToPeer ==
    /\ op.name = "peer"
    /\ \E buf \in {<<1, 2, 3>>} :
          Commit(ipv6_out(txbuf_init(World, buf), buf, PeerLinkLocal(op.mac),
                          IPV6_NEXT_HEADER_UDP),
                 [name |-> "ipv6_out", buf |-> buf, ip |-> PeerLinkLocal(op.mac),
                  next_header |-> IPV6_NEXT_HEADER_UDP, peer_mac |-> op.mac])

NextEui64 == SendToPeer

SpecEui64 == InitEui64 /\ [][NextEui64]_vars

\* C30: for every MAC address m, the link-local address that ipv6_init
\* derives from m is mapped back to exactly m by the link-local
\* destination-MAC derivation of ipv6_out, so a frame sent to a peer's EUI-64
\* link-local address is addressed to that peer's MAC.
C30_Theorem ==
    op.name = "ipv6_out" =>
      /\ Take(op.ip, 8) = <<254, 128, 0, 0, 0, 0, 0, 0>>
      /\ ipv6_out_dst_mac(op.ip) = op.peer_mac
      /\ Len(out) = 1
      /\ out[1].type = NET_PROTOCOL_IPV6
      /\ out[1].dst = op.peer_mac
      /\ Wire6Dst(out[1].data) = op.ip

\* a frame left for a peer whose MAC has the local bit set and carries ff:fe
\* itself
C30_Witness ==
    /\ op.name = "ipv6_out"
    /\ op.peer_mac = <<2, 255, 254, 255, 254, 255>>
    /\ op.ip = <<254, 128, 0, 0, 0, 0, 0, 0, 0, 255, 254, 255, 254, 255, 254, 255>>
    /\ Len(out) = 1
    /\ out[1].dst = <<2, 255, 254, 255, 254, 255>>

----------------------------------------------------------------------------
(* The ARP table and the pending queue together, checked under SpecArp *)

\* C35: between operations, no IPv4 address has both a live ARP-table entry
\* and a live pending-queue entry: a pending entry is created only when the
\* table has no live entry for the address, and every arp_in that adds the
\* table entry leaves no live pending entry for the address.
C35_Theorem ==
    /\ \A ip \in (DOMAIN arp_table.entries) \cap (DOMAIN arp_buf.entries) :
          ~(map_live(arp_table, now, ip) /\ map_live(arp_buf, now, ip))
    /\ \A ip \in DOMAIN arp_buf.entries :
          (ip \notin DOMAIN pre.arp_buf.entries
             \/ arp_buf.entries[ip] # pre.arp_buf.entries[ip])
          => /\ op.name = "arp_out" /\ op.ip = ip
             /\ ~map_live(pre.arp_table, pre.now, ip)
    /\ (op.name = "arp_in" /\ arp_well_formed(op.buf))
       => /\ map_live(arp_table, now, arp_sender_ip(op.buf))
          /\ ~map_live(arp_buf, now, arp_sender_ip(op.buf))

\* a packet was queued for an address whose table entry had expired, while
\* the table still held a live entry for the other peer
C35_Witness ==
    /\ op.name = "arp_out"
    /\ op.ip \in DOMAIN pre.arp_table.entries
    /\ ~map_live(pre.arp_table, pre.now, op.ip)
    /\ map_live(arp_buf, now, op.ip)
    /\ \E ip \in DOMAIN arp_table.entries :
          ip # op.ip /\ map_live(arp_table, now, ip) /\ ~map_live(arp_buf, now, ip)

\* an ARP packet came after the pending entry of its sender had expired: the
\* table entry is live and the dead pending entry is still in the queue
C35_Witness_Expired ==
    /\ op.name = "arp_in" /\ arp_well_formed(op.buf)
    /\ arp_sender_ip(op.buf) \in DOMAIN arp_buf.entries
    /\ map_live(arp_table, now, arp_sender_ip(op.buf))

----------------------------------------------------------------------------
(* Fragments sent while the destination is being resolved, under SpecIpOut *)

\* an ARP packet from a peer has arrived while a fragment with MF = 1, the
\* first of a datagram sent by ip_out, was pending for that peer
ReplyForPendingFragment ==
    /\ op.name = "arp_in" /\ arp_well_formed(op.buf)
    /\ map_live(pre.arp_buf, pre.now, arp_sender_ip(op.buf))
    /\ WireMF(map_get(pre.arp_buf, pre.now, arp_sender_ip(op.buf))) = 1

\* C36: when ip_out is called with a payload larger than 1480 bytes for a
\* destination that has no ARP-table entry, and an ARP reply from that
\* destination arrives before the pending entry expires, every fragment of
\* the datagram is emitted to Ethernet: the frames that leave on the reply
\* carry the datagram's id from offset 0 up to a last fragment with MF = 0,
\* each fragment starting where the one before it ended.
C36_Claim ==
    ReplyForPendingFragment =>
      LET first == map_get(pre.arp_buf, pre.now, arp_sender_ip(op.buf))
          f == SelectSeq(out, LAMBDA x : x.type = NET_PROTOCOL_IP)
      IN  /\ Len(f) >= 2
          /\ f[1].data = first
          /\ WireMF(f[Len(f)].data) = 0
          /\ \A i \in 2..Len(f) :
                /\ WireId(f[i].data) = WireId(first)
                /\ WireFragOffset(f[i].data) * 8
                     = WireFragOffset(f[i - 1].data) * 8 + WireDataLen(f[i - 1].data)

----------------------------------------------------------------------------
(* The ids of successive datagrams, under SpecIpOut *)

\* the id of the datagram the last ip_out call built, read from the first
\* packet it handed to arp_out
DatagramId == WireId(ArpOutCalls[1].buf)

\* the ids of the datagrams built before the last call: the k-th datagram
\* above the fragmenting threshold and the k-th one below it each took the
\* value its branch's counter had
EarlierIds ==
    {k % 65536 : k \in 0..(pre.ip_id_frag - 1)}
        \cup {k % 65536 : k \in 0..(pre.ip_id_plain - 1)}

\* C37: across a sequence of fewer than 65536 ip_out calls mixing payloads
\* above and below 1480 bytes, two different datagrams never carry the same
\* IPv4 id: the id of the datagram a call builds was carried by no datagram
\* of an earlier call, and it is the number of datagrams built before it
\* (one shared counter that advances once per datagram).
C37_Claim ==
    op.name = "ip_out"
    => /\ DatagramId \notin EarlierIds
       /\ DatagramId = (pre.ip_id_frag + pre.ip_id_plain) % 65536

----------------------------------------------------------------------------
(* The counters of the ping client and its echo records, under SpecEcho *)

\* the echo request the last icmp_ping_request call handed to ip_out
PingRequestOut == IpOutCalls[1].buf

\* C38: in every reachable state of the ping client received <= sent, and the
\* number of live echo records is at most sent - received: each
\* icmp_ping_request call uses seq = id = the current sent count, records one
\* echo entry under that seq and then increments sent, and each counted reply
\* consumes exactly one entry.
C38_Theorem ==
    /\ icmp_stats.received <= icmp_stats.sent
    /\ icmp_get_pending_requests_count(World) <= icmp_stats.sent - icmp_stats.received
    /\ op.name = "icmp_ping_request"
       => /\ load16(PingRequestOut, 4) = pre.icmp_stats.sent
          /\ load16(PingRequestOut, 6) = pre.icmp_stats.sent
          /\ DOMAIN icmp_ping_requests.entries
               = (DOMAIN pre.icmp_ping_requests.entries) \cup {pre.icmp_stats.sent}
          /\ pre.icmp_stats.sent \notin DOMAIN pre.icmp_ping_requests.entries
          /\ icmp_ping_requests.entries[pre.icmp_stats.sent].value.id = pre.icmp_stats.sent
          /\ icmp_ping_requests.entries[pre.icmp_stats.sent].value.seq = pre.icmp_stats.sent
          /\ icmp_stats.sent = pre.icmp_stats.sent + 1
          /\ icmp_stats.received = pre.icmp_stats.received
    /\ (op.name = "ip_in" /\ icmp_stats.received # pre.icmp_stats.received)
       => /\ icmp_stats.received = pre.icmp_stats.received + 1
          /\ Cardinality(DOMAIN icmp_ping_requests.entries)
               = Cardinality(DOMAIN pre.icmp_ping_requests.entries) - 1

\* the second request went out while the first was unanswered: two live
\* records, none received
C38_Witness ==
    /\ op.name = "icmp_ping_request"
    /\ pre.icmp_stats.sent = 1
    /\ icmp_stats.sent = 2 /\ icmp_stats.received = 0
    /\ icmp_get_pending_requests_count(World) = 2
    /\ load16(PingRequestOut, 6) = 1

\* one of two outstanding requests has been answered
C38_Witness_Reply ==
    /\ op.name = "ip_in"
    /\ icmp_stats.sent = 2 /\ pre.icmp_stats.received = 0 /\ icmp_stats.received = 1
    /\ icmp_get_pending_requests_count(World) = 1

\* the records have expired unanswered: fewer live records than sent - received
C38_Witness_Expired ==
    /\ icmp_stats.sent = 2 /\ icmp_stats.received = 0
    /\ icmp_get_pending_requests_count(World) = 0

----------------------------------------------------------------------------
(* Echo replies from any host and with any id *)

\* an echo reply from src that carries the bytes of id and seq as a request of
\* this host stores them
EchoReplyFrom(src, id, seq) ==
    peer_ip(NET_PROTOCOL_ICMP, src, NET_IF_IP, <<>>,
            peer_icmp(ICMP_TYPE_ECHO_REPLY, 0, swap16(id), swap16(seq), <<1, 2>>))

\* a reply arrives from either peer, with any id and any seq
EchoReplyInFrom ==
    \E src \in Peers, id \in 0..MaxId, seq \in 0..MaxId :
        Commit(ip_in(World, EchoReplyFrom(src, id, seq)),
               [name |-> "ip_in", buf |-> EchoReplyFrom(src, id, seq)])

NextEchoFrom == PingRequest \/ EchoReplyInFrom

SpecEchoFrom == Init /\ [][NextEchoFrom]_vars

\* the id field of the reply, read as the host reads it
WireEchoId(b) == WirePayload(b)[5] + 256 * WirePayload(b)[6]

\* C39: an ICMPv4 ECHO_REPLY is counted as received (and its echo record
\* deleted) only if its source IP equals the dest_ip and its id equals the id
\* recorded for the outstanding request with that seq; a reply with a matching
\* seq from another host or with another id leaves the statistics and the
\* record unchanged.
C39_Claim ==
    (EchoReplyReceived /\ map_live(pre.icmp_ping_requests, pre.now, WireSeq(op.buf)))
    => LET request == map_get(pre.icmp_ping_requests, pre.now, WireSeq(op.buf))
       IN  (WireSrc(op.buf) # request.dest_ip \/ WireEchoId(op.buf) # request.id)
           => /\ icmp_stats = pre.icmp_stats
              /\ icmp_ping_requests = pre.icmp_ping_requests

----------------------------------------------------------------------------
(* Neighbor discovery between two instances of the stack on one link *)

\* this host solicits the link-local address of the peer on the link
SendNsToPeer ==
    /\ op.name = "peer"
    /\ Commit(icmpv6_send_ns(World, PeerLinkLocal(op.mac)),
              [name |-> "icmpv6_send_ns", ip |-> PeerLinkLocal(op.mac),
               peer_mac |-> op.mac])

NextNd == SendNsToPeer

SpecNd == InitEui64 /\ [][NextNd]_vars

\* the other instance of the stack: the same code, started on the interface
\* with the MAC mac
InstanceAt(mac) == ipv6_init([InitWorld EXCEPT !.net_if_mac = mac, !.out = <<>>])

\* C40: two instances of the stack on one link interoperate in neighbor
\* discovery: the Neighbor Solicitation that instance A emits with
\* icmpv6_send_ns(B's IPv6 address), sent to the solicited-node multicast of
\* that address, is accepted by instance B's ipv6_in and icmpv6_in and makes B
\* emit one Neighbor Advertisement for its address to A.
C40_Claim ==
    op.name = "icmpv6_send_ns" =>
      /\ Len(out) = 1
      /\ out[1].type = NET_PROTOCOL_IPV6
      /\ Wire6Dst(out[1].data) = solicited_node_multicast(op.ip)
      /\ LET B == InstanceAt(op.peer_mac)
             rb == ipv6_in(B, out[1].data)
         IN  /\ ipv6_in_accepts(B, out[1].data)
             /\ Len(rb.out) = 1
             /\ rb.out[1].type = NET_PROTOCOL_IPV6
             /\ rb.out[1].src = op.peer_mac
             /\ Wire6Src(rb.out[1].data) = op.ip
             /\ Wire6Dst(rb.out[1].data) = net_if_ipv6
             /\ Wire6Payload(rb.out[1].data)[1] = ICMPV6_TYPE_NA
             /\ icmpv6_ns_target(Wire6Payload(rb.out[1].data)) = op.ip

----------------------------------------------------------------------------
(* The FTP server: its clients, and the control handler under SpecFtpCtrl *)

\* main has run up to its loop
FtpMain ==
    /\ FTP_CTRL_PORT \notin DOMAIN tcp_table
    /\ Commit(ftp_main(World), [name |-> "ftp_main"])

FtpClientA == [ip |-> PeerA, port |-> 50001]
FtpClientB == [ip |-> PeerB, port |-> 50002]

\* the control connection of a client
CtrlConn(c) == <<FTP_CTRL_PORT, c.ip, c.port>>

CRLF == <<"\r", "\n">>

\* the command lines of a client that uses every command the login test
\* guards, in upper and lower case, ended by CR LF or by LF
FtpLines ==
    { <<"U", "S", "E", "R", " ", "a">> \o CRLF,
      <<"P", "A", "S", "S", " ", "b">> \o CRLF,
      <<"P", "W", "D">> \o CRLF,
      <<"x", "p", "w", "d", "\n">>,
      <<"C", "W", "D", " ", "/", "p", "u", "b">> \o CRLF,
      <<"P", "A", "S", "V">> \o CRLF,
      <<" ", "l", "i", "s", "t">> \o CRLF,
      <<"R", "E", "T", "R", " ", "f">> \o CRLF,
      <<"S", "T", "O", "R", " ", "/", "g">> \o CRLF,
      <<"Q", "U", "I", "T">> \o CRLF }

\* the file system says yes to everything, or no to everything
FsAnswers ==
    { [dir_exists |-> a, readable |-> a, writable |-> a] : a \in BOOLEAN }

\* the pool of data ports is explored up to MaxId ports
PasvInBound(data) ==
    ftp_parse(data).cmd = <<"P", "A", "S", "V">>
        => next_data_port < FTP_DATA_PORT_BASE + MaxId

\* the TCP layer hands a command line of a client to the control handler
FtpCtrlFrom(clients, lines, answers) ==
    /\ FTP_CTRL_PORT \in DOMAIN tcp_table
    /\ \E c \in clients, data \in lines, fs \in answers :
          /\ PasvInBound(data)
          /\ Commit(ftp_ctrl_handler(World, CtrlConn(c), data, c.ip, c.port, fs),
                    [name |-> "ftp_ctrl_handler", tcp_conn |-> CtrlConn(c), data |-> data,
                     src_ip |-> c.ip, src_port |-> c.port, fs |-> fs])

\* the TCP layer hands an event on an open data port to the handler PASV
\* registered for it: a client has connected, with or without data
FtpDataFrom(clients, datas) ==
    \E port \in DOMAIN tcp_table, c \in clients, data \in datas :
        /\ tcp_table[port] = "ftp_data_handler"
        /\ Commit(ftp_data_handler(World, <<port, c.ip, c.port + 1>>, data, c.ip, c.port + 1),
                  [name |-> "ftp_data_handler", tcp_conn |-> <<port, c.ip, c.port + 1>>,
                   port |-> port, data |-> data, src_ip |-> c.ip, src_port |-> c.port + 1])

FtpCtrl == FtpCtrlFrom({FtpClientA}, FtpLines, FsAnswers)

FtpData == FtpDataFrom({FtpClientA}, {<<>>, <<"x">>})

NextFtpCtrl == FtpMain \/ FtpCtrl \/ FtpData

SpecFtpCtrl == Init /\ [][NextFtpCtrl]_vars

\* the commands ftp_ctrl_handler lets only a logged-in session use
LoginCommands ==
    { <<"P", "W", "D">>, <<"X", "P", "W", "D">>, <<"C", "W", "D">>, <<"P", "A", "S", "V">>,
      <<"L", "I", "S", "T">>, <<"R", "E", "T", "R">>, <<"S", "T", "O", "R">> }

\* the slots of the active sessions of a client in the table t
SlotsOf(t, ip, port) ==
    {i \in FtpSlots : t[i].active # 0 /\ t[i].client_ip = ip /\ t[i].client_port = port}

\* the last operation was a control command answered with one 530 to its
\* sender and nothing else: no tcp_open, no tcp_close, no other reply
OnlyRefused ==
    calls = <<[fn |-> "tcp_send", conn |-> op.tcp_conn, port |-> FTP_CTRL_PORT,
               dst_ip |-> op.src_ip, dst_port |-> op.src_port,
               code |-> FTP_RESP_NOT_LOGGED_IN, message |-> "Please login first.",
               args |-> <<>>]>>

\* C31: in the FTP control handler, a PWD, XPWD, CWD, PASV, LIST, RETR or STOR
\* command received while the session state is neither LOGGED_IN nor PASV_WAIT
\* is answered with 530 and changes nothing in the session except ctrl_conn:
\* no data port is allocated or opened, no pending operation or path is set,
\* and the state and current directory are unchanged.  (The first command of
\* a client creates its session, in state CONNECTED, before it is refused.)
C31_Theorem ==
    (op.name = "ftp_ctrl_handler" /\ ftp_parse(op.data).cmd \in LoginCommands)
    => /\ \A i \in SlotsOf(pre.ftp_sessions, op.src_ip, op.src_port) :
             (/\ pre.ftp_sessions[i].state # FTP_STATE_LOGGED_IN
              /\ pre.ftp_sessions[i].state # FTP_STATE_PASV_WAIT)
             => /\ OnlyRefused
                /\ ftp_sessions = [pre.ftp_sessions EXCEPT ![i].ctrl_conn = op.tcp_conn]
                /\ next_data_port = pre.next_data_port
                /\ tcp_table = pre.tcp_table
       /\ SlotsOf(pre.ftp_sessions, op.src_ip, op.src_port) = {}
          => /\ OnlyRefused
             /\ \E i \in FtpSlots :
                   /\ pre.ftp_sessions[i].active = 0
                   /\ ftp_sessions =
                        [pre.ftp_sessions EXCEPT ![i] =
                            [ZeroSession EXCEPT !.active = 1,
                                                !.client_ip = op.src_ip,
                                                !.client_port = op.src_port,
                                                !.current_dir = <<"/">>,
                                                !.ctrl_conn = op.tcp_conn]]
             /\ next_data_port = pre.next_data_port
             /\ tcp_table = pre.tcp_table

\* a session that logged in, changed to /pub, opened a data port and then sent
\* USER again is refused PASV: it keeps its directory, its data port and its
\* state
C31_Witness ==
    /\ op.name = "ftp_ctrl_handler"
    /\ ftp_parse(op.data).cmd = <<"P", "A", "S", "V">>
    /\ OnlyRefused
    /\ pre.ftp_sessions[0].active = 1
    /\ pre.ftp_sessions[0].state = FTP_STATE_USER_OK
    /\ ftp_sessions[0].state = FTP_STATE_USER_OK
    /\ ftp_sessions[0].current_dir = <<"/", "p", "u", "b">>
    /\ ftp_sessions[0].data_port = FTP_DATA_PORT_BASE
    /\ next_data_port = FTP_DATA_PORT_BASE + 1

\* the first command of a client is refused
C31_Witness_New ==
    /\ op.name = "ftp_ctrl_handler"
    /\ ftp_parse(op.data).cmd = <<"X", "P", "W", "D">>
    /\ OnlyRefused
    /\ pre.ftp_sessions[0].active = 0
    /\ ftp_sessions[0].active = 1
    /\ ftp_sessions[0].state = FTP_STATE_CONNECTED

----------------------------------------------------------------------------
(* Logging in, under SpecFtpCtrl *)

\* the session in slot i of the table t is active and logged in
LoggedIn(t, i) ==
    /\ t[i].active # 0
    /\ t[i].state \in {FTP_STATE_LOGGED_IN, FTP_STATE_PASV_WAIT}

\* the last operation was a PASS command of the client of slot i, received in
\* state USER_OK
PassAccepted(i) ==
    /\ op.name = "ftp_ctrl_handler"
    /\ ftp_parse(op.data).cmd = <<"P", "A", "S", "S">>
    /\ pre.ftp_sessions[i].active # 0
    /\ pre.ftp_sessions[i].client_ip = op.src_ip
    /\ pre.ftp_sessions[i].client_port = op.src_port
    /\ pre.ftp_sessions[i].state = FTP_STATE_USER_OK

\* C32: in every reachable state of the FTP server, a session is in state
\* LOGGED_IN or PASV_WAIT only if a PASS command was accepted (received in
\* state USER_OK) after that session's most recent USER command; no other
\* event moves a session that has not completed USER then PASS into a
\* logged-in state: a session that is logged in after an operation was logged
\* in before it, or the operation was its accepted PASS.
C32_Claim ==
    \A i \in FtpSlots :
        LoggedIn(ftp_sessions, i)
        => \/ /\ LoggedIn(pre.ftp_sessions, i)
              /\ pre.ftp_sessions[i].client_ip = ftp_sessions[i].client_ip
              /\ pre.ftp_sessions[i].client_port = ftp_sessions[i].client_port
           \/ PassAccepted(i)

----------------------------------------------------------------------------
(* Two clients with data connections, under SpecFtpData *)

\* the command lines of a client that logs in and transfers
FtpTransferLines ==
    { <<"U", "S", "E", "R", " ", "a">> \o CRLF,
      <<"P", "A", "S", "S", " ", "b">> \o CRLF,
      <<"P", "A", "S", "V">> \o CRLF,
      <<"L", "I", "S", "T">> \o CRLF,
      <<"R", "E", "T", "R", " ", "f">> \o CRLF }

FtpCtrlTwo ==
    FtpCtrlFrom({FtpClientA, FtpClientB}, FtpTransferLines,
                {[dir_exists |-> TRUE, readable |-> TRUE, writable |-> TRUE]})

FtpDataTwo == FtpDataFrom({FtpClientA, FtpClientB}, {<<>>})

NextFtpData == FtpMain \/ FtpCtrlTwo \/ FtpDataTwo

SpecFtpData == Init /\ [][NextFtpData]_vars

\* the transfer calls of ftp_data_handler
TransferFns == {"ftp_do_list", "ftp_do_retr", "ftp_do_stor_receive"}

\* the transfer that belongs to a pending operation
TransferOf(pending_op) ==
    IF pending_op = FTP_DATA_OP_LIST THEN "ftp_do_list"
    ELSE IF pending_op = FTP_DATA_OP_RETR THEN "ftp_do_retr"
    ELSE "ftp_do_stor_receive"

\* C33: a data-connection event on the PASV data port of a session is
\* processed with that same session's pending operation and path, and its
\* completion reply (226) goes to that session's control connection, also
\* when two or more sessions have PASV data ports open at the same time.
C33_Claim ==
    (/\ op.name = "ftp_data_handler"
     /\ ftp_get_session_by_data_port(pre, op.port) # -1)
    => LET i == ftp_get_session_by_data_port(pre, op.port)
           s == pre.ftp_sessions[i]
       IN  /\ \A k \in 1..Len(calls) :
                 /\ calls[k].fn \in TransferFns
                    => /\ calls[k].fn = TransferOf(s.pending_op)
                       /\ calls[k].session = i
                       /\ calls[k].pending_path = s.pending_path
                 /\ calls[k].fn = "tcp_send"
                    => /\ calls[k].code = FTP_RESP_TRANSFER_OK
                       /\ calls[k].conn = s.ctrl_conn
                       /\ calls[k].dst_ip = s.client_ip
                       /\ calls[k].dst_port = s.client_port
           /\ s.pending_op \in {FTP_DATA_OP_LIST, FTP_DATA_OP_RETR}
              => /\ \E k \in 1..Len(calls) : calls[k].fn = TransferOf(s.pending_op)
                 /\ \E k \in 1..Len(calls) : calls[k].fn = "tcp_send"
           /\ ftp_sessions[i].pending_op = FTP_DATA_OP_NONE
           /\ ftp_sessions[i].data_port = 0
           /\ op.port \notin DOMAIN tcp_table

----------------------------------------------------------------------------
(* The data ports that are open, under SpecFtpCtrl *)

\* the ports PASV has opened with tcp_open that no tcp_close has closed
OpenDataPorts == {p \in DOMAIN tcp_table : tcp_table[p] = "ftp_data_handler"}

\* the data ports of the active sessions
SessionDataPorts ==
    {ftp_sessions[i].data_port :
        i \in {j \in FtpSlots : ftp_sessions[j].active # 0 /\ ftp_sessions[j].data_port # 0}}

\* C34: after any sequence of FTP commands and data-connection events, the
\* set of TCP data ports that PASV has opened with tcp_open and that have not
\* been closed with tcp_close equals the set of nonzero data_port values of
\* active sessions: every port opened by PASV is closed when its transfer
\* completes, when the session issues PASV again, or when the session quits.
C34_Claim == OpenDataPorts = SessionDataPorts

----------------------------------------------------------------------------
(* The whole machine: every operation, in any order.  The specifications    *)
(* above restrict it to the operations one group of claims is about.        *)

Next ==
    \/ Tick \/ ArpIn \/ ArpLearn \/ ArpOut \/ IpIn \/ IpOut \/ UdpOpen \/ UdpClose \/ UdpIn
    \/ UdpSend \/ TxTick \/ TxArpIn \/ TxArpOut \/ TxUdpSend
    \/ Ipv6Init \/ Ipv6In \/ Ipv6Out \/ Icmpv6Send \/ PingStart \/ PingLoop \/ PingTick
    \/ UdpOpenOne \/ IpFragmentOut \/ PingRequest \/ EchoReplyIn \/ EchoTick
    \/ Ipv6InUpper \/ SetVersionTcFlow \/ SendToPeer
    \/ EchoReplyInFrom \/ SendNsToPeer
    \/ FtpMain \/ FtpCtrl \/ FtpData \/ FtpCtrlTwo \/ FtpDataTwo

Spec == Init /\ [][Next]_vars

====
